---- MODULE Spec2Model ----
(***************************************************************************)
(* A model of sql-schema: the schema diff engine (src/diff.rs), the        *)
(* migrate engine (src/migration.rs) and the migration path template       *)
(* (src/path_template.rs).  The engines are pure functions; they are       *)
(* operators here, and each specification draws their inputs from bounded  *)
(* sets in Init and applies them in its actions.                           *)
(***************************************************************************)
EXTENDS Integers, Sequences, FiniteSets, TLC

VARIABLES
    pc,     \* position of the driver that applies the operations
    a,      \* SyntaxTree A (a Vec<Statement>)
    b,      \* SyntaxTree B, or the migration M
    d,      \* result of diff(a, b)
    m,      \* result of migrate
    path,   \* the migration file name the template is inferred from
    parsed, \* result of PathTemplate::parse(path)
    tmpl,   \* the PathTemplate that is resolved
    data,   \* the TemplateData it is resolved with
    out     \* the resolved path

vars == <<pc, a, b, d, m, path, parsed, tmpl, data, out>>
treeVars == <<a, b, d, m>>
tmplVars == <<path, parsed, tmpl, data, out>>

(***************************************************************************)
(* Bounds of the model.                                                    *)
(***************************************************************************)
MaxTreeLen == 2      \* statements in a schema tree
MaxMigLen == 2       \* statements in a migration
MaxCols == 3         \* columns of a table
MaxALabels == 2      \* labels of the enum on the A side of a statement diff
MaxLabels == 5       \* labels of the enum on the B side

(***************************************************************************)
(* Generic helpers.                                                        *)
(***************************************************************************)
Min(S) == CHOOSE x \in S : \A y \in S : x <= y

Range(s) == {s[i] : i \in DOMAIN s}

RECURSIVE Flatten(_)
Flatten(ss) == IF ss = <<>> THEN <<>> ELSE Head(ss) \o Flatten(Tail(ss))

\* Iterator::find: the first element satisfying the predicate, as an Option
\* (<<>> is None, <<x>> is Some(x)).
Find(s, P(_)) ==
    LET hits == {i \in DOMAIN s : P(s[i])}
    IN  IF hits = {} THEN <<>> ELSE <<s[Min(hits)]>>

\* All sequences over S of length at most n.
SeqsUpTo(S, n) == UNION {[1..k -> S] : k \in 0..n}

NoDup(s) == \A i, j \in DOMAIN s : i # j => s[i] # s[j]

(***************************************************************************)
(* Result<Option<Vec<Statement>>, Error> values.                           *)
(***************************************************************************)
OkNone == [tag |-> "Ok", some |-> FALSE, val |-> <<>>, kind |-> "-"]
OkSome(v) == [tag |-> "Ok", some |-> TRUE, val |-> v, kind |-> "-"]
Err(k) == [tag |-> "Err", some |-> FALSE, val |-> <<>>, kind |-> k]
NoResult == [tag |-> "-", some |-> FALSE, val |-> <<>>, kind |-> "-"]

\* Iterator::collect::<Result<Vec<_>, _>> over per-item results that were
\* passed through filter_map(.. .transpose()): the first Err in iteration
\* order wins, otherwise the Some values are kept, in order.
CollectResults(rs) ==
    LET errs == {i \in DOMAIN rs : rs[i].tag = "Err"}
        IsSome(r) == r.some
    IN  IF errs # {} THEN rs[Min(errs)]
        ELSE OkSome([i \in DOMAIN SelectSeq(rs, IsSome) |-> SelectSeq(rs, IsSome)[i].val])

(***************************************************************************)
(* sqlparser::ast::Statement, the variants the engines match on.           *)
(***************************************************************************)
ColumnDef(n, t) == [name |-> n, data_type |-> t, options |-> <<>>]

CreateTable(n, cols, ine) ==
    [kind |-> "CreateTable", name |-> n, columns |-> cols, if_not_exists |-> ine]
\* name is an Option<ObjectName>: <<>> or <<n>>
CreateIndex(n, tbl, cols, ine) ==
    [kind |-> "CreateIndex", name |-> n, table_name |-> tbl, columns |-> cols,
     if_not_exists |-> ine]
EnumRep(ls) == [rep |-> "Enum", labels |-> ls]
CompositeRep(attrs) == [rep |-> "Composite", attributes |-> attrs]
CreateType(n, r) == [kind |-> "CreateType", name |-> n, representation |-> r]
CreateExtension(n, ine, c) ==
    [kind |-> "CreateExtension", name |-> n, if_not_exists |-> ine, cascade |-> c]
CreateDomain(n, t) == [kind |-> "CreateDomain", name |-> n, data_type |-> t]
Drop(ot, ie, ns) ==
    [kind |-> "Drop", object_type |-> ot, if_exists |-> ie, names |-> ns]
DropExtension(ns, ie, c) ==
    [kind |-> "DropExtension", names |-> ns, if_exists |-> ie, cascade_or_restrict |-> c]
DropDomain(ie, n) == [kind |-> "DropDomain", if_exists |-> ie, name |-> n]
AlterTable(n, ie, ops) ==
    [kind |-> "AlterTable", name |-> n, if_exists |-> ie, operations |-> ops]
AlterType(n, op) == [kind |-> "AlterType", name |-> n, operation |-> op]

\* AlterTableOperation
DropColumnOp(n, ie) == [op |-> "DropColumn", column_name |-> n, if_exists |-> ie]
AddColumnOp(ine, c) == [op |-> "AddColumn", if_not_exists |-> ine, column_def |-> c]

\* AlterTypeOperation; position is an Option<AlterTypeAddValuePosition>
Before(l) == [pos |-> "Before", label |-> l]
After(l) == [pos |-> "After", label |-> l]
AddValue(v, p) == [op |-> "AddValue", value |-> v, position |-> p]
RenameValue(f, t) == [op |-> "RenameValue", from |-> f, to |-> t]

CreateKinds == {"CreateTable", "CreateIndex", "CreateType", "CreateExtension", "CreateDomain"}

(***************************************************************************)
(* src/diff.rs                                                             *)
(***************************************************************************)
ColumnNames(cols) == {cols[i].name : i \in DOMAIN cols}

\* compare_create_table comparing whole column definitions where the code
\* compares column names
compare_create_table_ByDefinition(ta, tb) ==
    IF ta = tb THEN OkNone
    ELSE
        LET OnlyInA(ac) == ac \notin Range(tb.columns)
            OnlyInB(bc) == bc \notin Range(ta.columns)
            drops == SelectSeq(ta.columns, OnlyInA)
            adds == SelectSeq(tb.columns, OnlyInB)
            ops == [i \in DOMAIN drops |-> DropColumnOp(drops[i].name, ta.if_not_exists)]
                   \o [i \in DOMAIN adds |-> AddColumnOp(ta.if_not_exists, adds[i])]
        IN  OkSome(<<AlterTable(ta.name, ta.if_not_exists, ops)>>)

\* compare_create_table: columns only in a are dropped, columns only in b
\* are added, all in one AlterTable
compare_create_table(ta, tb) ==
    IF ta = tb THEN OkNone
    ELSE
        LET a_column_names == ColumnNames(ta.columns)
            b_column_names == ColumnNames(tb.columns)
            OnlyInA(ac) == ac.name \notin b_column_names
            OnlyInB(bc) == bc.name \notin a_column_names
            drops == SelectSeq(ta.columns, OnlyInA)
            adds == SelectSeq(tb.columns, OnlyInB)
            ops == [i \in DOMAIN drops |-> DropColumnOp(drops[i].name, ta.if_not_exists)]
                   \o [i \in DOMAIN adds |-> AddColumnOp(ta.if_not_exists, adds[i])]
        IN  OkSome(<<AlterTable(ta.name, ta.if_not_exists, ops)>>)

\* compare_create_index that recreates the index without dropping it
compare_create_index_NoDrop(ia, ib) ==
    IF ia = ib THEN OkNone
    ELSE IF ia.name = <<>> \/ ib.name = <<>> THEN Err("CompareUnnamedIndex")
    ELSE OkSome(<<ib>>)

\* compare_create_index
compare_create_index(ia, ib) ==
    IF ia = ib THEN OkNone
    ELSE IF ia.name = <<>> \/ ib.name = <<>> THEN Err("CompareUnnamedIndex")
    ELSE OkSome(<<Drop("Index", ia.if_not_exists, <<ia.name[1]>>), ib>>)

\* compare_create_type, Ordering::Equal: zip the labels and rename the
\* positions that differ
RenameLabels(a_labels, b_labels) ==
    LET Differs(i) == a_labels[i] # b_labels[i]
        idx == SelectSeq([i \in DOMAIN a_labels |-> i], Differs)
    IN  [k \in DOMAIN idx |-> RenameValue(a_labels[idx[k]], b_labels[idx[k]])]

\* the loop over b_labels without `prev = Some(b)` after an added label
RECURSIVE AddLabels_StalePrev(_, _, _, _, _)
AddLabels_StalePrev(a_labels, b_labels, bi, ai, prev) ==
    IF bi > Len(b_labels) THEN <<>>
    ELSE
        LET bl == b_labels[bi]
        IN  IF ai <= Len(a_labels)
            THEN IF a_labels[ai] = bl
                 THEN AddLabels_StalePrev(a_labels, b_labels, bi + 1, ai + 1, <<a_labels[ai]>>)
                 ELSE LET position == IF prev # <<>> THEN After(prev[1])
                                                     ELSE Before(a_labels[ai])
                      IN  <<AddValue(bl, <<position>>)>>
                          \o AddLabels_StalePrev(a_labels, b_labels, bi + 1, ai, prev)
            ELSE IF bl \in Range(a_labels)
                 THEN AddLabels_StalePrev(a_labels, b_labels, bi + 1, ai, prev)
                 ELSE <<AddValue(bl, <<>>)>>
                      \o AddLabels_StalePrev(a_labels, b_labels, bi + 1, ai, prev)

\* compare_create_type, Ordering::Less: the loop over b_labels.  ai is the
\* position of the peekable iterator over a_labels (the next label it
\* yields), prev the Option holding the label remembered last.
RECURSIVE AddLabels(_, _, _, _, _)
AddLabels(a_labels, b_labels, bi, ai, prev) ==
    IF bi > Len(b_labels) THEN <<>>
    ELSE
        LET bl == b_labels[bi]
        IN  IF ai <= Len(a_labels)
            THEN IF a_labels[ai] = bl
                 THEN AddLabels(a_labels, b_labels, bi + 1, ai + 1, <<a_labels[ai]>>)
                 ELSE LET position == IF prev # <<>> THEN After(prev[1])
                                                     ELSE Before(a_labels[ai])
                      IN  <<AddValue(bl, <<position>>)>>
                          \o AddLabels(a_labels, b_labels, bi + 1, ai, <<bl>>)
            ELSE IF bl \in Range(a_labels)
                 THEN AddLabels(a_labels, b_labels, bi + 1, ai, prev)
                 ELSE <<AddValue(bl, <<>>)>>
                      \o AddLabels(a_labels, b_labels, bi + 1, ai, prev)

compare_create_type(sa, sb) ==
    IF sa.name = sb.name /\ sa.representation = sb.representation THEN OkNone
    ELSE IF sa.representation.rep # "Enum" THEN Err("NotImplemented")
    ELSE IF sb.representation.rep # "Enum" THEN Err("NotImplemented")
    ELSE
        LET a_labels == sa.representation.labels
            b_labels == sb.representation.labels
        IN  IF Len(a_labels) > Len(b_labels) THEN Err("RemoveEnumLabel")
            ELSE
                LET operations ==
                        IF Len(a_labels) = Len(b_labels)
                        THEN RenameLabels(a_labels, b_labels)
                        ELSE AddLabels(a_labels, b_labels, 1, 1, <<>>)
                IN  IF operations = <<>> THEN OkNone
                    ELSE OkSome([i \in DOMAIN operations |->
                                    AlterType(sa.name, operations[i])])

\* compare_create_domain
compare_create_domain(da, db) ==
    IF da = db THEN OkNone
    ELSE OkSome(<<DropDomain(TRUE, da.name), db>>)

\* impl Diff for Statement
StatementDiff(sa, sb) ==
    CASE sa.kind = "CreateTable" ->
            IF sb.kind = "CreateTable" THEN compare_create_table(sa, sb) ELSE OkNone
      [] sa.kind = "CreateIndex" ->
            IF sb.kind = "CreateIndex" THEN compare_create_index(sa, sb) ELSE OkNone
      [] sa.kind = "CreateType" ->
            IF sb.kind = "CreateType" THEN compare_create_type(sa, sb) ELSE OkNone
      [] sa.kind = "CreateDomain" ->
            IF sb.kind = "CreateDomain" THEN compare_create_domain(sa, sb) ELSE OkNone
      [] OTHER -> Err("NotImplemented")

\* the match_fn closures: a statement of the same kind carrying the same name
SameObject(sa, sb) == sb.kind = sa.kind /\ sb.name = sa.name

\* the drop_fn closures of find_and_compare_create_{table,index,type,extension}
DropFor(sa) ==
    CASE sa.kind = "CreateTable" ->
            OkSome(<<Drop("Table", sa.if_not_exists, <<sa.name>>)>>)
      [] sa.kind = "CreateIndex" ->
            IF sa.name = <<>> THEN Err("DropUnnamedIndex")
            ELSE OkSome(<<Drop("Index", sa.if_not_exists, <<sa.name[1]>>)>>)
      [] sa.kind = "CreateType" ->
            OkSome(<<Drop("Type", FALSE, <<sa.name>>)>>)
      [] sa.kind = "CreateExtension" ->
            OkSome(<<DropExtension(<<sa.name>>, sa.if_not_exists,
                                   IF sa.cascade THEN <<"Cascade">> ELSE <<>>)>>)

\* find_and_compare
find_and_compare(sa, other) ==
    LET Match(sb) == SameObject(sa, sb)
        found == Find(other, Match)
    IN  IF found = <<>> THEN DropFor(sa) ELSE StatementDiff(sa, found[1])

\* find_and_compare_create_domain: a domain that is not found yields nothing
find_and_compare_create_domain(orig, other) ==
    LET Match(sb) == SameObject(orig, sb)
        found == Find(other, Match)
    IN  IF found = <<>> THEN OkNone ELSE StatementDiff(orig, found[1])

\* the first closure of Vec<Statement>::diff, per statement of self
DiffFromA(sa, other) ==
    CASE sa.kind \in {"CreateTable", "CreateIndex", "CreateType", "CreateExtension"} ->
            find_and_compare(sa, other)
      [] sa.kind = "CreateDomain" -> find_and_compare_create_domain(sa, other)
      [] OTHER -> Err("NotImplemented")

\* the second closure, per statement of other: a Create statement that has
\* no statement of its kind and name in self is emitted; for any other
\* statement the NotImplemented error is built and then dropped by
\* map_or_else(.., |_| None)
DiffFromB(sb, self) ==
    IF sb.kind \in CreateKinds
    THEN LET Match(sa) == SameObject(sb, sa)
         IN  IF Find(self, Match) = <<>> THEN OkSome(<<sb>>) ELSE OkNone
    ELSE OkNone

\* Vec<Statement>::diff with the two halves of the chain swapped: the
\* statements only other has come first
Diff_NewStatementsFirst(self, other) ==
    LET res == CollectResults([i \in DOMAIN other |-> DiffFromB(other[i], self)]
                              \o [i \in DOMAIN self |-> DiffFromA(self[i], other)])
    IN  IF res.tag = "Err" THEN res
        ELSE IF Flatten(res.val) = <<>> THEN OkNone
        ELSE OkSome(Flatten(res.val))

\* impl Diff for Vec<Statement>
Diff(self, other) ==
    LET res == CollectResults([i \in DOMAIN self |-> DiffFromA(self[i], other)]
                              \o [i \in DOMAIN other |-> DiffFromB(other[i], self)])
    IN  IF res.tag = "Err" THEN res
        ELSE IF Flatten(res.val) = <<>> THEN OkNone
        ELSE OkSome(Flatten(res.val))

(***************************************************************************)
(* src/migration.rs                                                        *)
(***************************************************************************)
\* AlterTableOperation::AlterColumn and the operations migrate_alter_table
\* has no arm for (RenameColumn, RenameTable, ...)
AlterColumnOp(n, o) == [op |-> "AlterColumn", column_name |-> n, alter_op |-> o]
RenameColumnOp(o, n) == [op |-> "RenameColumn", old_column_name |-> o, new_column_name |-> n]
RenameTableOp(n) == [op |-> "RenameTable", table_name |-> n]
ColumnOption(o, v) == [option |-> o, value |-> v]

\* the closure of the AlterColumn arm, for a column the operation names
AlterColumn(c, o) ==
    LET Without(k) ==
            LET Keep(x) == x.option # k IN SelectSeq(c.options, Keep)
    IN  CASE o.alter = "SetNotNull" ->
                [c EXCEPT !.options = Append(@, ColumnOption("NotNull", "-"))]
          [] o.alter = "DropNotNull" -> [c EXCEPT !.options = Without("NotNull")]
          [] o.alter = "SetDefault" ->
                [c EXCEPT !.options = Append(Without("Default"),
                                             ColumnOption("Default", o.value))]
          [] o.alter = "DropDefault" -> [c EXCEPT !.options = Without("Default")]
          [] o.alter = "SetDataType" -> [c EXCEPT !.data_type = o.value]
          [] o.alter = "AddGenerated" ->
                [c EXCEPT !.options = Append(Without("Generated"),
                                             ColumnOption("Generated", o.value))]

\* migrate_alter_table with AddColumn putting the column in front of the
\* column list
RECURSIVE migrate_alter_table_AddInFront(_, _)
migrate_alter_table_AddInFront(t, ops) ==
    IF ops = <<>> THEN OkSome(t)
    ELSE
        LET op == Head(ops)
        IN  CASE op.op = "AddColumn" ->
                    migrate_alter_table_AddInFront(
                        [t EXCEPT !.columns = <<op.column_def>> \o @], Tail(ops))
              [] op.op = "DropColumn" ->
                    LET Keep(c) == c.name # op.column_name
                    IN  migrate_alter_table_AddInFront(
                            [t EXCEPT !.columns = SelectSeq(@, Keep)], Tail(ops))
              [] op.op = "AlterColumn" ->
                    migrate_alter_table_AddInFront(
                        [t EXCEPT !.columns =
                            [i \in DOMAIN @ |->
                                IF @[i].name # op.column_name THEN @[i]
                                ELSE AlterColumn(@[i], op.alter_op)]],
                        Tail(ops))
              [] OTHER -> Err("AlterTableOpNotImplemented")

\* migrate_alter_table: the operations are folded left to right; t is the
\* table so far
RECURSIVE migrate_alter_table(_, _)
migrate_alter_table(t, ops) ==
    IF ops = <<>> THEN OkSome(t)
    ELSE
        LET op == Head(ops)
        IN  CASE op.op = "AddColumn" ->
                    migrate_alter_table(
                        [t EXCEPT !.columns = Append(@, op.column_def)], Tail(ops))
              [] op.op = "DropColumn" ->
                    LET Keep(c) == c.name # op.column_name
                    IN  migrate_alter_table(
                            [t EXCEPT !.columns = SelectSeq(@, Keep)], Tail(ops))
              [] op.op = "AlterColumn" ->
                    migrate_alter_table(
                        [t EXCEPT !.columns =
                            [i \in DOMAIN @ |->
                                IF @[i].name # op.column_name THEN @[i]
                                ELSE AlterColumn(@[i], op.alter_op)]],
                        Tail(ops))
              [] OTHER -> Err("AlterTableOpNotImplemented")

\* the position labels.insert is given for Before / After
IndexOfLabel(labels, l) == Min({i \in DOMAIN labels : labels[i] = l})

InsertAt(s, i, x) == SubSeq(s, 1, i - 1) \o <<x>> \o SubSeq(s, i, Len(s))

\* migrate_alter_type pushing the label to the end when the label of a
\* Before position is not found
migrate_alter_type_BeforeAbsentAtEnd(t, alter) ==
    LET op == alter.operation
        rep == t.representation
    IN  CASE op.op = "Rename" -> OkSome([t EXCEPT !.name = op.new_name])
          [] op.op = "AddValue" ->
                IF rep.rep # "Enum" THEN Err("AlterTypeInvalidOp")
                ELSE
                    LET labels == rep.labels
                        has(l) == l \in Range(labels)
                        next ==
                            IF op.position = <<>> THEN Append(labels, op.value)
                            ELSE IF op.position[1].pos = "Before"
                            THEN InsertAt(labels,
                                          IF has(op.position[1].label)
                                          THEN IndexOfLabel(labels, op.position[1].label)
                                          ELSE Len(labels) + 1,
                                          op.value)
                            ELSE IF has(op.position[1].label)
                            THEN InsertAt(labels,
                                          IndexOfLabel(labels, op.position[1].label) + 1,
                                          op.value)
                            ELSE Append(labels, op.value)
                    IN  OkSome([t EXCEPT !.representation = EnumRep(next)])
          [] op.op = "RenameValue" ->
                IF rep.rep # "Enum" THEN Err("AlterTypeInvalidOp")
                ELSE OkSome([t EXCEPT !.representation =
                        EnumRep([i \in DOMAIN rep.labels |->
                            IF rep.labels[i] = op.from THEN op.to ELSE rep.labels[i]])])

\* migrate_alter_type
migrate_alter_type(t, alter) ==
    LET op == alter.operation
        rep == t.representation
    IN  CASE op.op = "Rename" -> OkSome([t EXCEPT !.name = op.new_name])
          [] op.op = "AddValue" ->
                IF rep.rep # "Enum" THEN Err("AlterTypeInvalidOp")
                ELSE
                    LET labels == rep.labels
                        has(l) == l \in Range(labels)
                        next ==
                            IF op.position = <<>> THEN Append(labels, op.value)
                            ELSE IF op.position[1].pos = "Before"
                            THEN InsertAt(labels,
                                          IF has(op.position[1].label)
                                          THEN IndexOfLabel(labels, op.position[1].label)
                                          ELSE 1,
                                          op.value)
                            ELSE IF has(op.position[1].label)
                            THEN InsertAt(labels,
                                          IndexOfLabel(labels, op.position[1].label) + 1,
                                          op.value)
                            ELSE Append(labels, op.value)
                    IN  OkSome([t EXCEPT !.representation = EnumRep(next)])
          [] op.op = "RenameValue" ->
                IF rep.rep # "Enum" THEN Err("AlterTypeInvalidOp")
                ELSE OkSome([t EXCEPT !.representation =
                        EnumRep([i \in DOMAIN rep.labels |->
                            IF rep.labels[i] = op.from THEN op.to ELSE rep.labels[i]])])

\* impl Migrate for Statement: Ok(Some(s)) is OkSome(s), Ok(None) is OkNone
StatementMigrate(self, other) ==
    CASE self.kind = "CreateTable" ->
            CASE other.kind = "AlterTable" ->
                    IF other.name = self.name
                    THEN migrate_alter_table(self, other.operations)
                    ELSE OkSome(self)
              [] other.kind = "Drop" ->
                    IF other.object_type = "Table" /\ self.name \in Range(other.names)
                    THEN OkNone ELSE OkSome(self)
              [] OTHER -> Err("NotImplemented")
      [] self.kind = "CreateIndex" ->
            CASE other.kind = "Drop" ->
                    IF self.name = <<>> THEN Err("UnnamedIndex")
                    ELSE IF other.object_type = "Index"
                            /\ self.name[1] \in Range(other.names)
                    THEN OkNone ELSE OkSome(self)
              [] OTHER -> Err("NotImplemented")
      [] self.kind = "CreateType" ->
            CASE other.kind = "AlterType" ->
                    IF self.name = other.name
                    THEN migrate_alter_type(self, other)
                    ELSE OkSome(self)
              [] other.kind = "Drop" ->
                    IF other.object_type = "Type" /\ self.name \in Range(other.names)
                    THEN OkNone ELSE OkSome(self)
              [] OTHER -> Err("NotImplemented")
      [] OTHER -> Err("NotImplemented")

\* the find closures of Vec<Statement>::migrate: the statement of the
\* migration that targets sa
Targets(sa, sb) ==
    CASE sa.kind = "CreateTable" ->
            \/ sb.kind = "AlterTable" /\ sb.name = sa.name
            \/ /\ sb.kind = "Drop" /\ sb.object_type = "Table"
               /\ Len(sb.names) = 1 /\ sb.names[1] = sa.name
      [] sa.kind = "CreateIndex" ->
            /\ sb.kind = "Drop" /\ sb.object_type = "Index"
            /\ Len(sb.names) = 1 /\ <<sb.names[1]>> = sa.name
      [] sa.kind = "CreateType" ->
            \/ sb.kind = "AlterType" /\ sb.name = sa.name
            \/ /\ sb.kind = "Drop" /\ sb.object_type = "Type"
               /\ Len(sb.names) = 1 /\ sb.names[1] = sa.name
      [] sa.kind = "CreateExtension" ->
            sb.kind = "DropExtension" /\ sa.name \in Range(sb.names)
      [] sa.kind = "CreateDomain" ->
            sb.kind = "DropDomain" /\ sa.name = sb.name
      [] OTHER -> FALSE

\* the first closure of Vec<Statement>::migrate without the CreateExtension
\* and CreateDomain arms: these statements fall to the NotImplemented arm
MigrateFromA_TablesIndexesTypes(sa, other) ==
    IF sa.kind \notin {"CreateTable", "CreateIndex", "CreateType"}
    THEN Err("NotImplemented")
    ELSE LET Match(sb) == Targets(sa, sb)
             found == Find(other, Match)
         IN  IF found = <<>> THEN OkSome(sa) ELSE StatementMigrate(sa, found[1])

\* the first closure of Vec<Statement>::migrate with map_or(None, ..): a
\* statement nothing targets is left out
MigrateFromA_DropsUntargeted(sa, other) ==
    IF sa.kind \notin CreateKinds THEN Err("NotImplemented")
    ELSE LET Match(sb) == Targets(sa, sb)
             found == Find(other, Match)
         IN  IF found = <<>> THEN OkNone ELSE StatementMigrate(sa, found[1])

\* the first closure of Vec<Statement>::migrate, per statement of self:
\* the first targeting statement is applied, a statement nothing targets is
\* kept
MigrateFromA(sa, other) ==
    IF sa.kind \notin CreateKinds THEN Err("NotImplemented")
    ELSE LET Match(sb) == Targets(sa, sb)
             found == Find(other, Match)
         IN  IF found = <<>> THEN OkSome(sa) ELSE StatementMigrate(sa, found[1])

\* Vec<Statement>::migrate chaining every statement of other, not only the
\* Create statements
Migrate_ChainAll(self, other) ==
    CollectResults([i \in DOMAIN self |-> MigrateFromA(self[i], other)]
                   \o [i \in DOMAIN other |-> OkSome(other[i])])

\* impl Migrate for Vec<Statement>: the rewritten statements of self, then
\* the Create statements of other
Migrate(self, other) ==
    LET IsCreate(sb) == sb.kind \in CreateKinds
        creates == SelectSeq(other, IsCreate)
    IN  CollectResults([i \in DOMAIN self |-> MigrateFromA(self[i], other)]
                       \o [i \in DOMAIN creates |-> OkSome(creates[i])])

(***************************************************************************)
(* The inputs the specifications draw from.                                *)
(***************************************************************************)
\* no two statements of a schema tree create the same object
UniqueObjects(t) == \A i, j \in DOMAIN t : i # j => ~SameObject(t[i], t[j])

TreeTables ==
    {CreateTable("foo", <<ColumnDef("id", "INT")>>, FALSE),
     CreateTable("foo", <<ColumnDef("id", "INT"), ColumnDef("bar", "TEXT")>>, FALSE),
     CreateTable("foo", <<ColumnDef("id", "BIGINT")>>, FALSE),
     CreateTable("bar", <<ColumnDef("id", "INT")>>, FALSE)}
TreeIndexes ==
    {CreateIndex(<<"title_idx">>, "films", <<"title">>, FALSE),
     CreateIndex(<<"title_idx">>, "films", <<"lower(title)">>, FALSE),
     CreateIndex(<<>>, "films", <<"title">>, FALSE)}
TreeTypes ==
    {CreateType("bug_status", EnumRep(<<"open">>)),
     CreateType("bug_status", EnumRep(<<"new", "open">>)),
     CreateType("compfoo", CompositeRep(<<"f1", "f2">>))}
TreeExtensions == {CreateExtension("hstore", FALSE, FALSE)}
TreeDomains == {CreateDomain("d1", "INT"), CreateDomain("d1", "TEXT")}
TreeStmts == TreeTables \cup TreeIndexes \cup TreeTypes \cup TreeExtensions \cup TreeDomains

Trees == {t \in SeqsUpTo(TreeStmts, MaxTreeLen) : UniqueObjects(t)}

MigStmts ==
    {Drop("Table", FALSE, <<"foo">>),
     Drop("Index", FALSE, <<"title_idx">>),
     Drop("Type", FALSE, <<"bug_status">>),
     AlterTable("foo", FALSE, <<AddColumnOp(FALSE, ColumnDef("baz", "TEXT"))>>),
     AlterType("bug_status", AddValue("closed", <<>>)),
     CreateTable("baz", <<ColumnDef("id", "INT")>>, FALSE),
     Drop("Index", FALSE, <<"foo">>),
     DropExtension(<<"hstore">>, FALSE, <<>>),
     DropDomain(TRUE, "d1"),
     AlterTable("foo", FALSE, <<DropColumnOp("bar", FALSE),
                                AddColumnOp(FALSE, ColumnDef("qux", "INT"))>>),
     CreateIndex(<<"code_idx">>, "films", <<"code">>, FALSE)}
Migrations == SeqsUpTo(MigStmts, MaxMigLen)

\* statement pairs for the per-kind statement diff
ColDefs ==
    {ColumnDef("id", "INT"), ColumnDef("id", "BIGINT"), ColumnDef("bar", "TEXT"),
     ColumnDef("baz", "TEXT"), ColumnDef("qux", "INT")}
ColLists ==
    {cs \in SeqsUpTo(ColDefs, MaxCols) :
        \A i, j \in DOMAIN cs : i # j => cs[i].name # cs[j].name}
StmtTables == {CreateTable("foo", cs, ine) : cs \in ColLists, ine \in BOOLEAN}
StmtIndexes ==
    {CreateIndex(n, "films", cs, ine) :
        n \in {<<>>, <<"title_idx">>, <<"code_idx">>},
        cs \in {<<"title">>, <<"lower(title)">>}, ine \in BOOLEAN}
Labels == {"new", "open", "assigned", "closed", "critical"}
LabelLists(n) == {ls \in SeqsUpTo(Labels, n) : NoDup(ls)}
StmtTypesA ==
    {CreateType("bug_status", EnumRep(ls)) : ls \in LabelLists(MaxALabels)}
    \cup {CreateType("bug_status", CompositeRep(<<"f1", "f2">>))}
StmtTypesB ==
    {CreateType("bug_status", EnumRep(ls)) : ls \in LabelLists(MaxLabels)}
    \cup {CreateType("bug_status", CompositeRep(<<"f1", "f2">>))}
StmtPairs ==
    (StmtTables \X StmtTables) \cup (StmtIndexes \X StmtIndexes)
    \cup (StmtTypesA \X StmtTypesB) \cup (TreeDomains \X TreeDomains)
    \cup (TreeExtensions \X TreeExtensions)

(***************************************************************************)
(* path_template.rs.  A string is a sequence of one-character strings.     *)
(* Integers of 64 bits (i64, usize) and u32 are kept as canonical decimal  *)
(* digit sequences, so that their parse fails exactly at the type's bound. *)
(***************************************************************************)
Digits == <<"0", "1", "2", "3", "4", "5", "6", "7", "8", "9">>
IsDigit(c) == \E i \in DOMAIN Digits : Digits[i] = c
DigitVal(c) == (CHOOSE i \in DOMAIN Digits : Digits[i] = c) - 1
Take(s, n) == SubSeq(s, 1, n)
Skip(s, n) == SubSeq(s, n + 1, Len(s))
StartsWith(s, lit) == Len(s) >= Len(lit) /\ Take(s, Len(lit)) = lit

\* the number of leading characters of s that are decimal digits
LeadingDigits(s) ==
    LET nd == {i \in DOMAIN s : ~IsDigit(s[i])}
    IN  IF nd = {} THEN Len(s) ELSE Min(nd) - 1

\* a digit sequence without its leading zeros
Canon(ds) ==
    LET nz == {i \in DOMAIN ds : ds[i] # "0"}
    IN  IF nz = {} THEN <<"0">> ELSE SubSeq(ds, Min(nz), Len(ds))

\* format!("{:0>w$}"): left-pads with zeros, never truncates
PadLeft(ds, w) ==
    IF Len(ds) >= w THEN ds ELSE [i \in 1..(w - Len(ds)) |-> "0"] \o ds

\* x <= y for canonical digit sequences
NumLeq(x, y) ==
    \/ Len(x) < Len(y)
    \/ /\ Len(x) = Len(y)
       /\ \/ x = y
          \/ \E i \in DOMAIN x :
                /\ \A j \in 1..(i - 1) : x[j] = y[j]
                /\ DigitVal(x[i]) < DigitVal(y[i])

RECURSIVE NumInc(_)
NumInc(ds) ==
    IF ds = <<>> THEN <<"1">>
    ELSE LET front == Take(ds, Len(ds) - 1)
             last == ds[Len(ds)]
         IN  IF last = "9" THEN NumInc(front) \o <<"0">>
             ELSE front \o <<Digits[DigitVal(last) + 2]>>

\* the value of at most nine digits
RECURSIVE ToInt(_)
ToInt(ds) ==
    IF ds = <<>> THEN 0
    ELSE ToInt(Take(ds, Len(ds) - 1)) * 10 + DigitVal(ds[Len(ds)])

RECURSIVE ToDigits(_)
ToDigits(n) ==
    IF n < 10 THEN <<Digits[n + 1]>>
    ELSE ToDigits(n \div 10) \o <<Digits[(n % 10) + 1]>>

\* quotient and remainder of a digit sequence by a small divisor
RECURSIVE DivMod(_, _)
DivMod(ds, n) ==
    IF ds = <<>> THEN [q |-> 0, r |-> 0]
    ELSE LET p == DivMod(Take(ds, Len(ds) - 1), n)
             cur == p.r * 10 + DigitVal(ds[Len(ds)])
         IN  [q |-> p.q * 10 + cur \div n, r |-> cur % n]

I64_MAX == <<"9", "2", "2", "3", "3", "7", "2", "0", "3", "6", "8", "5", "4", "7", "7", "5", "8", "0", "7">>
USIZE_MAX == <<"1", "8", "4", "4", "6", "7", "4", "4", "0", "7", "3", "7", "0", "9", "5", "5", "1", "6", "1", "5">>
U32_MAX == <<"4", "2", "9", "4", "9", "6", "7", "2", "9", "5">>

\* str::parse of a digit run to an unsigned or non-negative integer type
parse_to(ds, max) == IF NumLeq(Canon(ds), max) THEN <<Canon(ds)>> ELSE <<>>

(***************************************************************************)
(* chrono: an instant is the day since 1970-01-01, the second of the day   *)
(* and the nanosecond of the second.                                       *)
(***************************************************************************)
Instant(days, secs, nanos) == [days |-> days, secs |-> secs, nanos |-> nanos]

IsLeap(y) == (y % 4 = 0 /\ y % 100 # 0) \/ y % 400 = 0

DaysInMonth(y, mo) ==
    IF mo = 2 THEN (IF IsLeap(y) THEN 29 ELSE 28)
    ELSE IF mo \in {4, 6, 9, 11} THEN 30 ELSE 31

DaysFromCivil(y, mo, dd) ==
    LET yy == IF mo <= 2 THEN y - 1 ELSE y
        era == yy \div 400
        yoe == yy - era * 400
        mp == IF mo > 2 THEN mo - 3 ELSE mo + 9
        doy == (153 * mp + 2) \div 5 + dd - 1
        doe == yoe * 365 + yoe \div 4 - yoe \div 100 + doy
    IN  era * 146097 + doe - 719468

CivilFromDays(days) ==
    LET z == days + 719468
        era == z \div 146097
        doe == z - era * 146097
        yoe == (doe - doe \div 1460 + doe \div 36524 - doe \div 146096) \div 365
        doy == doe - (365 * yoe + yoe \div 4 - yoe \div 100)
        mp == (5 * doy + 2) \div 153
        dd == doy - (153 * mp + 2) \div 5 + 1
        mo == IF mp < 10 THEN mp + 3 ELSE mp - 9
        y == yoe + era * 400
    IN  [year |-> IF mo <= 2 THEN y + 1 ELSE y, month |-> mo, day |-> dd]

\* NaiveDate::from_ymd_opt: None for a day the month does not have
from_ymd_opt(y, mo, dd) ==
    IF mo \in 1..12 /\ dd \in 1..DaysInMonth(y, mo)
    THEN <<DaysFromCivil(y, mo, dd)>> ELSE <<>>

MIN_DATE == DaysFromCivil(2000, 1, 1)
MAX_DATE == DaysFromCivil(2100, 1, 1)

\* DateTime::timestamp: whole seconds since the epoch
timestamp(ts) ==
    LET lo == ts.days * 6400 + ts.secs
        hi == ts.days * 8 + lo \div 10000
    IN  Canon(ToDigits(hi) \o PadLeft(ToDigits(lo % 10000), 4))

timestamp_subsec_millis(ts) == ts.nanos \div 1000000
timestamp_subsec_micros(ts) == ts.nanos \div 1000
timestamp_subsec_nanos(ts) == ts.nanos
timestamp_millis(ts) == Canon(timestamp(ts) \o PadLeft(ToDigits(timestamp_subsec_millis(ts)), 3))
timestamp_micros(ts) == Canon(timestamp(ts) \o PadLeft(ToDigits(timestamp_subsec_micros(ts)), 6))
timestamp_nanos(ts) == Canon(timestamp(ts) \o PadLeft(ToDigits(timestamp_subsec_nanos(ts)), 9))

\* DateTime::from_timestamp on whole seconds (a digit sequence) and nanoseconds.
\* Seconds of more than ten digits lie past the year 2286: chrono either has no
\* such instant or validate_datetime rejects it, so both are None here.
from_timestamp(secs, nanos) ==
    IF Len(secs) > 10 THEN <<>>
    ELSE LET dm == DivMod(secs, 86400) IN <<Instant(dm.q, dm.r, nanos)>>

\* from_timestamp_millis / _micros / _nanos: frac is the number of decimal
\* digits below the second in the unit (3, 6, 9; 0 for seconds)
from_timestamp_unit(v, frac) ==
    LET n == Len(v)
        secs == IF n > frac THEN Take(v, n - frac) ELSE <<"0">>
        sub == IF n > frac THEN Skip(v, n - frac) ELSE v
        nanos == ToInt(sub \o [i \in 1..(9 - frac) |-> "0"])
    IN  from_timestamp(secs, nanos)

(***************************************************************************)
(* path_template.rs, mod ast: tokens, segments, templates.  An Option is   *)
(* the empty sequence or a sequence of one element.                        *)
(***************************************************************************)
Prefix(s) == [t |-> "Prefix", s |-> s]
PaddedNumber(w, n) == [t |-> "PaddedNumber", width |-> w, number |-> n]
RandomNumber(n) == [t |-> "RandomNumber", number |-> n]
Semver(major, minor, patch, widths) ==
    [major |-> major, minor |-> minor, patch |-> patch, widths |-> widths]
SemverToken(v) == [t |-> "Semver", v |-> v]
Epoch(unit, value) == [ts |-> "Epoch", unit |-> unit, value |-> value]
Date(year, year_sep, month, month_sep, day) ==
    [year |-> year, year_sep |-> year_sep, month |-> month,
     month_sep |-> month_sep, day |-> day]
Time(hour, hour_sep, minute, minute_sep, second, second_sep, subsecond) ==
    [hour |-> hour, hour_sep |-> hour_sep, minute |-> minute,
     minute_sep |-> minute_sep, second |-> second, second_sep |-> second_sep,
     subsecond |-> subsecond]
SubSecond(unit, value) == [unit |-> unit, value |-> value]
DateTime(date, date_sep, time) ==
    [ts |-> "DateTime", date |-> date, date_sep |-> date_sep, time |-> time]
Timestamp(ts) == [t |-> "Timestamp", ts |-> ts]
Name(s) == [t |-> "Name", s |-> s]
UpDown(v) == [t |-> "UpDown", v |-> v]
DoUndo(v) == [t |-> "DoUndo", v |-> v]
Underscore == [t |-> "Underscore"]
Dot == [t |-> "Dot"]
Dash == [t |-> "Dash"]
Extension == [t |-> "Extension"]
Segment(kind, tokens) == [kind |-> kind, tokens |-> tokens]
PathTemplate(segments) == [segments |-> segments]

TemplateData(ts, name, up_down, counter, random, semver) ==
    [timestamp |-> ts, name |-> name, up_down |-> up_down,
     counter |-> counter, random |-> random, semver |-> semver]

\* TemplateData::default(): the epoch, the empty name, nothing set
DefaultTemplateData == TemplateData(Instant(0, 0, 0), <<>>, <<>>, <<>>, <<>>, <<>>)

\* impl Default for PathTemplate
DefaultPathTemplate ==
    PathTemplate(<<Segment("File",
        <<Timestamp(Epoch("Second", <<"0">>)), Underscore,
          Name(<<"g", "e", "n", "e", "r", "a", "t", "e", "d", "_",
                 "m", "i", "g", "r", "a", "t", "i", "o", "n">>),
          Dot, UpDown("Up"), Extension>>)>>)

IsUpDownToken(tok) == tok.t \in {"UpDown", "DoUndo"}

includes_up_down(T) ==
    \E i \in DOMAIN T.segments :
        \E j \in DOMAIN T.segments[i].tokens : IsUpDownToken(T.segments[i].tokens[j])

\* with_up_down that pushes Dot, UpDown(Up) without looking at the last token
with_up_down_AlwaysInsert(T) ==
    IF T.segments = <<>> THEN T
    ELSE LET n == Len(T.segments)
             s == T.segments[n]
             ext == IF s.tokens = <<>> THEN Extension ELSE s.tokens[Len(s.tokens)]
             rest == IF s.tokens = <<>> THEN <<>> ELSE Take(s.tokens, Len(s.tokens) - 1)
             toks == rest \o <<Dot, UpDown("Up")>>
         IN  PathTemplate([T.segments EXCEPT ![n] = Segment(s.kind, toks \o <<ext>>)])

with_up_down(T) ==
    IF T.segments = <<>> THEN T
    ELSE LET n == Len(T.segments)
             s == T.segments[n]
             ext == IF s.tokens = <<>> THEN Extension ELSE s.tokens[Len(s.tokens)]
             rest == IF s.tokens = <<>> THEN <<>> ELSE Take(s.tokens, Len(s.tokens) - 1)
             toks == IF rest # <<>> /\ IsUpDownToken(rest[Len(rest)])
                     THEN rest
                     ELSE rest \o <<Dot, UpDown("Up")>>
         IN  PathTemplate([T.segments EXCEPT ![n] = Segment(s.kind, toks \o <<ext>>)])

\* impl FromStr for Semver, on the three digit runs of the text
SemverFromParts(p1, p2, p3) ==
    LET n1 == parse_to(p1, U32_MAX)
        n2 == parse_to(p2, U32_MAX)
        n3 == parse_to(p3, U32_MAX)
    IN  IF n1 = <<>> \/ n2 = <<>> \/ n3 = <<>> THEN <<>>
        ELSE <<Semver(n1[1], n2[1], n3[1], <<Len(p1), Len(p2), Len(p3)>>)>>

increment_minor(v) == [v EXCEPT !.minor = NumInc(@), !.patch = <<"0">>]

\* impl fmt::Display for Semver
SemverDisplay(v) ==
    PadLeft(v.major, v.widths[1]) \o <<".">> \o PadLeft(v.minor, v.widths[2])
        \o <<".">> \o PadLeft(v.patch, v.widths[3])

\* impl Default for Semver
DefaultSemver == Semver(<<"0">>, <<"1">>, <<"0">>, <<6, 6, 2>>)

\* TryFrom<Time> for NaiveTime: the second and nanosecond of the day
NaiveTimeFrom(tm) ==
    LET sec == IF tm.second = <<>> THEN 0 ELSE tm.second[1]
        nanos == IF tm.subsecond = <<>> THEN 0
                 ELSE IF tm.subsecond[1].unit = "Milli" THEN tm.subsecond[1].value * 1000000
                 ELSE IF tm.subsecond[1].unit = "Micro" THEN tm.subsecond[1].value * 1000
                 ELSE tm.subsecond[1].value
    IN  IF tm.hour < 24 /\ tm.minute < 60 /\ sec < 60
        THEN <<[secs |-> tm.hour * 3600 + tm.minute * 60 + sec, nanos |-> nanos]>>
        ELSE <<>>

\* TryFrom<Timestamp> for chrono::DateTime<Utc>: None stands for Err
InstantFrom(ts) ==
    IF ts.ts = "Epoch"
    THEN from_timestamp_unit(ts.value,
            IF ts.unit = "Nano" THEN 9 ELSE IF ts.unit = "Micro" THEN 6
            ELSE IF ts.unit = "Milli" THEN 3 ELSE 0)
    ELSE LET date == from_ymd_opt(ts.date.year, ts.date.month, ts.date.day)
             time == IF ts.time = <<>> THEN <<[secs |-> 0, nanos |-> 0]>>
                     ELSE NaiveTimeFrom(ts.time[1])
         IN  IF date = <<>> \/ time = <<>> THEN <<>>
             ELSE <<Instant(date[1], time[1].secs, time[1].nanos)>>

(***************************************************************************)
(* path_template.rs, mod parser.  A parser takes the remaining input and   *)
(* returns POk(value, rest) or PFail.  The combinators are winnow's: a     *)
(* tuple runs its parsers one after the other, alt takes the first that    *)
(* succeeds, opt gives the input back when its parser fails.               *)
(***************************************************************************)
POk(v, rest) == [ok |-> TRUE, v |-> v, rest |-> rest]
PFail == [ok |-> FALSE]

\* a tuple of parsers: the values parsed so far and the rest of the input
Start(in) == POk(<<>>, in)
Push(s, r) == IF r.ok THEN POk(Append(s.v, r.v), r.rest) ELSE PFail
Then(s, P(_)) == IF s.ok THEN Push(s, P(s.rest)) ELSE PFail
Alt(r1, r2) == IF r1.ok THEN r1 ELSE r2
Opt(r, in) == IF r.ok THEN POk(<<r.v>>, r.rest) ELSE POk(<<>>, in)
\* Parser::map
MapOk(r, F(_)) == IF r.ok THEN POk(F(r.v), r.rest) ELSE PFail
\* Parser::parse_to, verify and verify_map: F gives an Option
MapOpt(r, F(_)) ==
    IF r.ok THEN (IF F(r.v) = <<>> THEN PFail ELSE POk(F(r.v)[1], r.rest)) ELSE PFail
\* Option::and_then
AndThen(o, F(_)) == IF o = <<>> THEN <<>> ELSE F(o[1])

Literal(in, lit) == IF StartsWith(in, lit) THEN POk(lit, Skip(in, Len(lit))) ELSE PFail

digit_n(in, n) ==
    IF LeadingDigits(in) >= n THEN POk(Take(in, n), Skip(in, n)) ELSE PFail

digit1(in) ==
    IF LeadingDigits(in) >= 1
    THEN POk(Take(in, LeadingDigits(in)), Skip(in, LeadingDigits(in))) ELSE PFail

IsSep(c) == c \in {".", "_", "-"}
SepToken(c) == IF c = "." THEN Dot ELSE IF c = "_" THEN Underscore ELSE Dash

dot(in) == IF StartsWith(in, <<".">>) THEN POk(Dot, Tail(in)) ELSE PFail

sep(in) ==
    IF in # <<>> /\ IsSep(in[1]) THEN POk(SepToken(in[1]), Tail(in)) ELSE PFail

\* the number of separators at the head of the input
LeadingSeps(in) ==
    IF \A i \in DOMAIN in : IsSep(in[i]) THEN Len(in)
    ELSE Min({i \in DOMAIN in : ~IsSep(in[i])}) - 1

\* repeat(0.., sep) and repeat(1.., sep)
repeat0_sep(in) ==
    POk([i \in 1..LeadingSeps(in) |-> SepToken(in[i])], Skip(in, LeadingSeps(in)))
repeat1_sep(in) == IF LeadingSeps(in) >= 1 THEN repeat0_sep(in) ELSE PFail

\* impl FromStr for PaddedNumber
PaddedNumberFromStr(s) ==
    AndThen(parse_to(s, USIZE_MAX), LAMBDA n : <<PaddedNumber(Len(s), n)>>)

padded_number(in) == MapOpt(digit1(in), PaddedNumberFromStr)

random_number(in) ==
    MapOpt(digit1(in),
           LAMBDA s : AndThen(parse_to(s, USIZE_MAX), LAMBDA n : <<RandomNumber(n)>>))

\* separated(3, digit1, '.'), then Semver::from_str on its text
semver(in) ==
    MapOk(MapOpt(Then(Then(Then(Then(Then(Start(in), digit1), dot), digit1), dot), digit1),
                 LAMBDA v : SemverFromParts(v[1], v[3], v[5])),
          SemverToken)

\* digit_n(2).parse_to::<u32>().verify(lo <= v <= hi)
two_digits(in, lo, hi) ==
    MapOpt(digit_n(in, 2),
           LAMBDA s : IF ToInt(s) >= lo /\ ToInt(s) <= hi THEN <<ToInt(s)>> ELSE <<>>)

year(in) ==
    MapOk(Then(Then(Start(in), LAMBDA i : Literal(i, <<"2", "0">>)), LAMBDA i : digit_n(i, 2)),
          LAMBDA v : ToInt(v[1] \o v[2]))
month(in) == two_digits(in, 1, 12)
day(in) == two_digits(in, 1, 31)
hour(in) == two_digits(in, 1, 12)
minute(in) == two_digits(in, 0, 59)
second(in) == two_digits(in, 0, 59)

submilli(in) ==
    IF LeadingDigits(in) >= 1
    THEN POk(SubSecond("Milli", ToInt(Take(in, Min({LeadingDigits(in), 3})))),
             Skip(in, Min({LeadingDigits(in), 3})))
    ELSE PFail
submicro(in) == MapOk(digit_n(in, 6), LAMBDA s : SubSecond("Micro", ToInt(s)))
subnano(in) == MapOk(digit_n(in, 9), LAMBDA s : SubSecond("Nano", ToInt(s)))

sep_literal(in) ==
    IF in # <<>> /\ IsSep(in[1]) THEN POk(<<in[1]>>, Tail(in)) ELSE PFail
opt_sep_literal(in) == Opt(sep_literal(in), in)

\* opt((opt(sep_literal), alt((subnano, submicro, submilli))))
opt_subsecond(in) ==
    Opt(Then(Then(Start(in), opt_sep_literal),
             LAMBDA i : Alt(subnano(i), Alt(submicro(i), submilli(i)))), in)

\* opt((opt(sep_literal), second, opt(...)))
opt_second(in) ==
    Opt(Then(Then(Then(Start(in), opt_sep_literal), second), opt_subsecond), in)

\* the closure of time: v is (hour, s1, minute, second)
TimeOf(v) ==
    Time(v[1], v[2], v[3],
         IF v[4] = <<>> THEN <<>> ELSE v[4][1][1],
         IF v[4] = <<>> THEN <<>> ELSE <<v[4][1][2]>>,
         IF v[4] = <<>> \/ v[4][1][3] = <<>> THEN <<>> ELSE v[4][1][3][1][1],
         IF v[4] = <<>> \/ v[4][1][3] = <<>> THEN <<>> ELSE <<v[4][1][3][1][2]>>)

time(in) ==
    MapOk(Then(Then(Then(Then(Start(in), hour), opt_sep_literal), minute), opt_second),
          TimeOf)

\* opt((opt(sep_literal), time))
opt_time(in) == Opt(Then(Then(Start(in), opt_sep_literal), time), in)

\* the closure of datetime: v is (year, s1, month, s2, day, time_or_rand)
DateTimeOf(v) ==
    Timestamp(DateTime(Date(v[1], v[2], v[3], v[4], v[5]),
                       IF v[6] = <<>> THEN <<>> ELSE v[6][1][1],
                       IF v[6] = <<>> THEN <<>> ELSE <<v[6][1][2]>>))

datetime(in) ==
    MapOk(Then(Then(Then(Then(Then(Then(Start(in),
            year), opt_sep_literal), month), opt_sep_literal), day), opt_time),
          DateTimeOf)

validate_datetime(ts) ==
    IF ts.days >= MIN_DATE /\ ts.days <= MAX_DATE THEN <<ts>> ELSE <<>>

\* ts.timestamp(), timestamp_millis(), timestamp_micros(), timestamp_nanos_opt()
EpochValue(unit, ts) ==
    IF unit = "Second" THEN timestamp(ts)
    ELSE IF unit = "Milli" THEN timestamp_millis(ts)
    ELSE IF unit = "Micro" THEN timestamp_micros(ts)
    ELSE timestamp_nanos(ts)

\* epoch_seconds / epoch_millis / epoch_micros / epoch_nanos: frac is the
\* number of digits below the second in the unit
epoch_unit(in, unit, frac) ==
    MapOpt(digit1(in),
           LAMBDA s :
               AndThen(AndThen(AndThen(parse_to(s, I64_MAX),
                                       LAMBDA v : from_timestamp_unit(v, frac)),
                               validate_datetime),
                       LAMBDA ts : <<Epoch(unit, EpochValue(unit, ts))>>))

epoch_seconds(in) == epoch_unit(in, "Second", 0)
epoch_millis(in) == epoch_unit(in, "Milli", 3)
epoch_micros(in) == epoch_unit(in, "Micro", 6)
epoch_nanos(in) == epoch_unit(in, "Nano", 9)

epoch_timestamp(in) ==
    MapOk(Alt(epoch_nanos(in), Alt(epoch_micros(in), Alt(epoch_millis(in), epoch_seconds(in)))),
          Timestamp)

\* take_until(1.., '.'): the text before the first dot, at least one character
name(in) ==
    IF (\E i \in DOMAIN in : in[i] = ".") /\ in[1] # "."
    THEN POk(Name(Take(in, Min({i \in DOMAIN in : in[i] = "."}) - 1)),
             Skip(in, Min({i \in DOMAIN in : in[i] = "."}) - 1))
    ELSE PFail

updown(in) ==
    IF StartsWith(in, <<"d", "o", "w", "n">>) THEN POk(UpDown("Down"), Skip(in, 4))
    ELSE IF StartsWith(in, <<"u", "n", "d", "o">>) THEN POk(DoUndo("Undo"), Skip(in, 4))
    ELSE IF StartsWith(in, <<"u", "p">>) THEN POk(UpDown("Up"), Skip(in, 2))
    ELSE IF StartsWith(in, <<"d", "o">>) THEN POk(DoUndo("Do"), Skip(in, 2))
    ELSE PFail

\* the length of the run of z and Z at the head of the input
LeadingZ(in) ==
    IF \A i \in DOMAIN in : in[i] \in {"z", "Z"} THEN Len(in)
    ELSE Min({i \in DOMAIN in : in[i] \notin {"z", "Z"}}) - 1

\* (z_prefix, v_prefix).take()
prefix(in) ==
    IF LeadingZ(in) < Len(in) /\ in[LeadingZ(in) + 1] \in {"v", "V"}
    THEN POk(Prefix(Take(in, LeadingZ(in) + 1)), Skip(in, LeadingZ(in) + 1))
    ELSE PFail

\* the closure of number: v is (t1, t2)
NumberTokens(v) ==
    <<v[1]>> \o (IF v[2] = <<>> THEN <<>> ELSE v[2][1][1] \o <<v[2][1][2]>>)

number(in) ==
    MapOk(Then(Then(Start(in),
            LAMBDA i : Alt(datetime(i), Alt(epoch_timestamp(i), Alt(semver(i), padded_number(i))))),
            LAMBDA i : Opt(Then(Then(Start(i), repeat0_sep),
                                LAMBDA j : Alt(epoch_timestamp(j), random_number(j))), i)),
          NumberTokens)

\* the tokens of an optional (separators, name)
SepNameTokens(o) == IF o = <<>> THEN <<>> ELSE o[1][1] \o <<o[1][2]>>

dir_ident(in) ==
    MapOk(Then(Then(Then(Start(in),
            LAMBDA i : Opt(prefix(i), i)),
            number),
            LAMBDA i : Opt(Then(Then(Start(i), repeat1_sep), name), i)),
          LAMBDA v : Segment("Dir", v[1] \o v[2] \o SepNameTokens(v[3])))

file_ext(in) ==
    IF StartsWith(in, <<".", "s", "q", "l">>) THEN POk(Extension, Skip(in, 4)) ELSE PFail

file_nonident(in) ==
    MapOk(Then(Then(Start(in), updown), file_ext), LAMBDA v : Segment("File", v))

file_ident(in) ==
    MapOk(Then(Then(Then(Then(Then(Start(in),
            LAMBDA i : Opt(prefix(i), i)),
            number),
            LAMBDA i : Opt(Then(Then(Start(i), repeat0_sep), name), i)),
            LAMBDA i : Opt(Then(Then(Start(i), dot), updown), i)),
            file_ext),
          LAMBDA v : Segment("File",
              v[1] \o v[2] \o SepNameTokens(v[3])
                  \o (IF v[4] = <<>> THEN <<>> ELSE v[4][1]) \o <<v[5]>>))

path_sep(in) ==
    IF in # <<>> /\ in[1] \in {"/", "\\"} THEN POk(<<in[1]>>, Tail(in)) ELSE PFail

\* alt(((dir_ident, path_sep, file_nonident), file_ident))
path_segments(in) ==
    Alt(MapOk(Then(Then(Then(Start(in), dir_ident), path_sep), file_nonident),
              LAMBDA v : <<v[1], v[3]>>),
        MapOk(file_ident(in), LAMBDA f : <<f>>))

\* Parser::parse: the whole input has to be consumed
Complete(r) ==
    IF r.ok /\ r.rest = <<>> THEN OkSome(PathTemplate(r.v)) ELSE Err("ParseError")

parse(input) == Complete(path_segments(input))

(***************************************************************************)
(* path_template.rs, mod resolver                                          *)
(***************************************************************************)
OptText(o) == IF o = <<>> THEN <<>> ELSE o[1]

ResolveUpDown(dat) ==
    IF dat.up_down = <<>> THEN <<>>
    ELSE IF dat.up_down[1] = "Up" THEN <<"u", "p">> ELSE <<"d", "o", "w", "n">>

ResolveDoUndo(dat) ==
    IF dat.up_down = <<>> THEN <<>>
    ELSE IF dat.up_down[1] = "Up" THEN <<"d", "o">> ELSE <<"u", "n", "d", "o">>

ResolveSubSecond(sss, dat) ==
    IF sss.unit = "Milli" THEN ToDigits(timestamp_subsec_millis(dat.timestamp))
    ELSE IF sss.unit = "Micro" THEN ToDigits(timestamp_subsec_micros(dat.timestamp))
    ELSE ToDigits(timestamp_subsec_nanos(dat.timestamp))

ResolveTime(tm, dat) ==
    LET ts == dat.timestamp
    IN  PadLeft(ToDigits(ts.secs \div 3600), 2) \o OptText(tm.hour_sep)
        \o PadLeft(ToDigits((ts.secs % 3600) \div 60), 2) \o OptText(tm.minute_sep)
        \o (IF tm.second = <<>> THEN <<>> ELSE PadLeft(ToDigits(ts.secs % 60), 2))
        \o OptText(tm.second_sep)
        \o (IF tm.subsecond = <<>> THEN <<>> ELSE ResolveSubSecond(tm.subsecond[1], dat))

ResolveDate(date, dat) ==
    LET c == CivilFromDays(dat.timestamp.days)
    IN  PadLeft(ToDigits(c.year), 2) \o OptText(date.year_sep)
        \o PadLeft(ToDigits(c.month), 2) \o OptText(date.month_sep)
        \o PadLeft(ToDigits(c.day), 2)

ResolveDateTime(dt, dat) ==
    ResolveDate(dt.date, dat) \o OptText(dt.date_sep)
        \o (IF dt.time = <<>> THEN <<>> ELSE ResolveTime(dt.time[1], dat))

ResolveEpochTimestamp(e, dat) ==
    IF e.unit = "Second" THEN timestamp(dat.timestamp)
    ELSE IF e.unit = "Milli" THEN timestamp_millis(dat.timestamp)
    ELSE IF e.unit = "Micro" THEN timestamp_micros(dat.timestamp)
    ELSE timestamp_nanos(dat.timestamp)

ResolveTimestamp(ts, dat) ==
    IF ts.ts = "Epoch" THEN ResolveEpochTimestamp(ts, dat) ELSE ResolveDateTime(ts, dat)

ResolveSemver(v, dat) ==
    SemverDisplay(IF dat.semver # <<>> THEN dat.semver[1] ELSE increment_minor(v))

ResolvePaddedNumber(p, dat) ==
    PadLeft(IF dat.counter # <<>> THEN dat.counter[1] ELSE NumInc(p.number), p.width)

\* a Token resolver that writes the template's own name instead of data.name
ResolveToken_NameOfTemplate(tok, dat) ==
    IF tok.t = "Prefix" THEN tok.s
    ELSE IF tok.t = "PaddedNumber" THEN ResolvePaddedNumber(tok, dat)
    ELSE IF tok.t = "RandomNumber"
         THEN (IF dat.random # <<>> THEN dat.random[1] ELSE timestamp_micros(dat.timestamp))
    ELSE IF tok.t = "Semver" THEN ResolveSemver(tok.v, dat)
    ELSE IF tok.t = "Timestamp" THEN ResolveTimestamp(tok.ts, dat)
    ELSE IF tok.t = "Name" THEN tok.s
    ELSE IF tok.t = "UpDown" THEN ResolveUpDown(dat)
    ELSE IF tok.t = "DoUndo" THEN ResolveDoUndo(dat)
    ELSE IF tok.t = "Underscore" THEN <<"_">>
    ELSE IF tok.t = "Dot" THEN <<".">>
    ELSE IF tok.t = "Dash" THEN <<"-">>
    ELSE <<".", "s", "q", "l">>

ResolveToken(tok, dat) ==
    IF tok.t = "Prefix" THEN tok.s
    ELSE IF tok.t = "PaddedNumber" THEN ResolvePaddedNumber(tok, dat)
    ELSE IF tok.t = "RandomNumber"
         THEN (IF dat.random # <<>> THEN dat.random[1] ELSE timestamp_micros(dat.timestamp))
    ELSE IF tok.t = "Semver" THEN ResolveSemver(tok.v, dat)
    ELSE IF tok.t = "Timestamp" THEN ResolveTimestamp(tok.ts, dat)
    ELSE IF tok.t = "Name" THEN dat.name
    ELSE IF tok.t = "UpDown" THEN ResolveUpDown(dat)
    ELSE IF tok.t = "DoUndo" THEN ResolveDoUndo(dat)
    ELSE IF tok.t = "Underscore" THEN <<"_">>
    ELSE IF tok.t = "Dot" THEN <<".">>
    ELSE IF tok.t = "Dash" THEN <<"-">>
    ELSE <<".", "s", "q", "l">>

ResolveSegment(s, dat) ==
    Flatten([i \in DOMAIN s.tokens |->
        IF /\ dat.up_down = <<>>
           /\ s.tokens[i].t = "Dot"
           /\ i + 1 \in DOMAIN s.tokens
           /\ s.tokens[i + 1].t = "UpDown"
        THEN <<>>
        ELSE ResolveToken(s.tokens[i], dat)])

Resolve(T, dat) ==
    Flatten([i \in DOMAIN T.segments |-> ResolveSegment(T.segments[i], dat)])

\* tests::data: the TemplateData the template's own tokens stand for; Err is
\* the panic of try_into().unwrap() on a date that does not exist
RECURSIVE InferFrom(_, _)
InferFrom(toks, dat) ==
    IF toks = <<>> THEN OkSome(dat)
    ELSE LET tok == Head(toks)
         IN  IF tok.t = "Timestamp"
             THEN (IF InstantFrom(tok.ts) = <<>> THEN Err("unwrap")
                   ELSE InferFrom(Tail(toks), [dat EXCEPT !.timestamp = InstantFrom(tok.ts)[1]]))
             ELSE IF tok.t = "Name"
             THEN InferFrom(Tail(toks), [dat EXCEPT !.name = tok.s])
             ELSE IF tok.t = "PaddedNumber"
             THEN InferFrom(Tail(toks), [dat EXCEPT !.counter = <<tok.number>>])
             ELSE IF tok.t = "RandomNumber"
             THEN InferFrom(Tail(toks), [dat EXCEPT !.random = <<tok.number>>])
             ELSE IF tok.t = "Semver"
             THEN InferFrom(Tail(toks), [dat EXCEPT !.semver = <<tok.v>>])
             ELSE IF tok.t = "UpDown"
             THEN InferFrom(Tail(toks), [dat EXCEPT !.up_down = <<tok.v>>])
             ELSE IF tok.t = "DoUndo"
             THEN InferFrom(Tail(toks),
                      [dat EXCEPT !.up_down = <<IF tok.v = "Do" THEN "Up" ELSE "Down">>])
             ELSE InferFrom(Tail(toks), dat)

TokensOf(T) == Flatten([i \in DOMAIN T.segments |-> T.segments[i].tokens])

InferData(T) == InferFrom(TokensOf(T), DefaultTemplateData)

\* the path template is not in use
NoTemplate ==
    /\ path = <<>> /\ parsed = NoResult /\ tmpl = <<>> /\ data = <<>> /\ out = <<>>

(***************************************************************************)
(* Spec: run_schema's use of the engines on two schema trees, diff(a, b)   *)
(* and then migrate(a, diff.unwrap_or(empty)).                             *)
(***************************************************************************)
Init ==
    /\ pc = "start"
    /\ a \in Trees
    /\ b \in Trees
    /\ d = NoResult
    /\ m = NoResult
    /\ NoTemplate

\* schema.diff(&migrations)
DoDiff ==
    /\ pc = "start"
    /\ d' = Diff(a, b)
    /\ pc' = "diffed"
    /\ UNCHANGED <<a, b, m, tmplVars>>

\* schema.migrate(&diff), reached only when the diff did not fail (`?`)
DoMigrate ==
    /\ pc = "diffed"
    /\ d.tag = "Ok"
    /\ m' = Migrate(a, d.val)
    /\ pc' = "migrated"
    /\ UNCHANGED <<a, b, d, tmplVars>>

Next == DoDiff \/ DoMigrate

Spec == Init /\ [][Next]_vars

(***************************************************************************)
(* SpecMigrate: a migration b applied to a schema tree a.                  *)
(***************************************************************************)
InitMigrate ==
    /\ pc = "start"
    /\ a \in Trees
    /\ b \in Migrations
    /\ d = NoResult
    /\ m = NoResult
    /\ NoTemplate

\* SyntaxTree::migrate
ApplyMigration ==
    /\ pc = "start"
    /\ m' = Migrate(a, b)
    /\ pc' = "applied"
    /\ UNCHANGED <<a, b, d, tmplVars>>

NextMigrate == ApplyMigration

SpecMigrate == InitMigrate /\ [][NextMigrate]_vars

(***************************************************************************)
(* SpecStmt: the per-kind statement diff of two statements of one kind.    *)
(***************************************************************************)
InitStmt ==
    /\ pc = "start"
    /\ \E p \in StmtPairs : a = <<p[1]>> /\ b = <<p[2]>>
    /\ d = NoResult
    /\ m = NoResult
    /\ NoTemplate

\* Statement::diff
DoStatementDiff ==
    /\ pc = "start"
    /\ d' = StatementDiff(a[1], b[1])
    /\ pc' = "stmt_diffed"
    /\ UNCHANGED <<a, b, m, tmplVars>>

NextStmt == DoStatementDiff

SpecStmt == InitStmt /\ [][NextStmt]_vars

(***************************************************************************)
(* Properties of diff and migrate on schema trees.                         *)
(***************************************************************************)
HasKind(t, k) == \E i \in DOMAIN t : t[i].kind = k

\* the two trees hold the same statements, each as often, in any order
SameStatements(s, t) ==
    \A x \in Range(s) \cup Range(t) :
        Cardinality({i \in DOMAIN s : s[i] = x}) = Cardinality({i \in DOMAIN t : t[i] = x})

\* C1: round trip.  Whenever diff(a, b) succeeds, migrate(a, D) succeeds
\* too and yields a tree equal to b, D being the diff or the empty tree.
\* The equality is taken up to the order of the statements, the weakest
\* reading of "structurally equal": a state violating it violates every
\* stronger reading.
C1_RoundTrip ==
    pc = "migrated" => (m.tag = "Ok" /\ m.some /\ SameStatements(m.val, b))

\* C2: diff(a, a) is Ok(None) for every tree a.
C2_DiffSelfIsNone ==
    (pc = "diffed" /\ a = b) => d = OkNone

\* C4: diff(a, b) is Ok(None) only if a and b are statement-equal.  The
\* claim asks for the same statements in the same order; already the same
\* statements in any order fails, and a state violating that violates the
\* claim.
C4_NoneOnlyIfEqual ==
    (pc = "diffed" /\ d = OkNone) => SameStatements(a, b)

\* C3: migrate(a, []) succeeds with Some(a), also when a is empty.
C3_MigrateEmptyIsIdentity ==
    (pc = "applied" /\ b = <<>>) => (m.tag = "Ok" /\ m.some /\ m.val = a)

C3_Witness ==
    /\ pc = "applied" /\ b = <<>> /\ Len(a) = 2
    /\ HasKind(a, "CreateExtension") /\ HasKind(a, "CreateDomain")
    /\ m = OkSome(a)

(***************************************************************************)
(* Properties of the per-kind statement diff.                              *)
(***************************************************************************)
BothKind(k) == pc = "stmt_diffed" /\ a[1].kind = k /\ b[1].kind = k

\* the position of the column called n in cols (column names are unique)
ColumnPos(cols, n) == CHOOSE i \in DOMAIN cols : cols[i].name = n

\* C8: two CreateTable statements of the same name that are not equal give
\* exactly one AlterTable; its operations are DropColumn for the columns
\* only a has, in a's order, then AddColumn for the columns only b has, in
\* b's order, and nothing else; they are not empty when the sets of column
\* names differ.
C8_TableDiffIsColumnSetDiff ==
    (BothKind("CreateTable") /\ a[1].name = b[1].name /\ a[1] # b[1]) =>
        /\ d.tag = "Ok" /\ d.some /\ Len(d.val) = 1
        /\ d.val[1].kind = "AlterTable" /\ d.val[1].name = a[1].name
        /\ LET ops == d.val[1].operations
               an == ColumnNames(a[1].columns)
               bn == ColumnNames(b[1].columns)
               nd == Cardinality(an \ bn)
           IN  /\ Len(ops) = nd + Cardinality(bn \ an)
               /\ \A i \in 1..nd :
                    /\ ops[i].op = "DropColumn"
                    /\ ops[i].column_name \in an \ bn
                    /\ \A j \in 1..(i - 1) :
                         ColumnPos(a[1].columns, ops[j].column_name)
                            < ColumnPos(a[1].columns, ops[i].column_name)
               /\ \A i \in (nd + 1)..Len(ops) :
                    /\ ops[i].op = "AddColumn"
                    /\ ops[i].column_def \in Range(b[1].columns)
                    /\ ops[i].column_def.name \in bn \ an
                    /\ \A j \in (nd + 1)..(i - 1) :
                         ColumnPos(b[1].columns, ops[j].column_def.name)
                            < ColumnPos(b[1].columns, ops[i].column_def.name)
               /\ (an # bn => ops # <<>>)

C8_Witness ==
    /\ BothKind("CreateTable") /\ a[1].columns # b[1].columns
    /\ d.some /\ Len(d.val[1].operations) = 4
    /\ d.val[1].operations[2].op = "DropColumn"
    /\ d.val[1].operations[3].op = "AddColumn"

\* C9: two CreateIndex statements with the same name: equal ones give no
\* output; unequal ones give Drop(Index, a.name) then CreateIndex(b) when
\* both are named and the error CompareUnnamedIndex when a name is missing.
C9_IndexDiff ==
    (BothKind("CreateIndex") /\ a[1].name = b[1].name) =>
        IF a[1] = b[1] THEN d = OkNone
        ELSE IF a[1].name # <<>> /\ b[1].name # <<>>
        THEN /\ d.tag = "Ok" /\ d.some /\ Len(d.val) = 2
             /\ d.val[1].kind = "Drop" /\ d.val[1].object_type = "Index"
             /\ d.val[1].names = a[1].name
             /\ d.val[2] = b[1]
        ELSE d = Err("CompareUnnamedIndex")

C9_WitnessNamed ==
    /\ BothKind("CreateIndex") /\ a[1].name = <<"title_idx">> /\ b[1].name = <<"title_idx">>
    /\ a[1].columns # b[1].columns /\ d.some /\ Len(d.val) = 2

C9_WitnessUnnamed ==
    /\ BothKind("CreateIndex") /\ a[1].name = <<>> /\ b[1].name = <<>> /\ a[1] # b[1]
    /\ d.tag = "Err"

C9_Witness == C9_WitnessNamed \/ C9_WitnessUnnamed

\* the number of labels of al the walk over bl has consumed before it
\* looks at bl[i]
RECURSIVE Consumed(_, _, _)
Consumed(al, bl, i) ==
    IF i = 1 THEN 0
    ELSE LET k == Consumed(al, bl, i - 1)
         IN  IF k < Len(al) /\ al[k + 1] = bl[i - 1] THEN k + 1 ELSE k

\* the labels of bl the walk emits an AddValue for, by position in bl
Emitted(al, bl) ==
    {i \in DOMAIN bl :
        LET k == Consumed(al, bl, i)
        IN  IF k < Len(al) THEN al[k + 1] # bl[i] ELSE bl[i] \notin Range(al)}

C10_ExampleA == CreateType("bug_status", EnumRep(<<"open", "critical">>))
C10_ExampleB ==
    CreateType("bug_status", EnumRep(<<"new", "open", "assigned", "closed", "critical">>))

\* C10: enum diff with fewer labels in a than in b.  A label of b that is
\* not the head of the rest of a is added, AFTER the label remembered last
\* (which is the label before it in b) or, for the first label of b, BEFORE
\* the head of a; once a is exhausted the labels a does not contain are
\* added without a position.  The example gives 'new' BEFORE 'open',
\* 'assigned' AFTER 'open', 'closed' AFTER 'assigned'.
C10_EnumAddValues ==
    (/\ BothKind("CreateType")
     /\ a[1].representation.rep = "Enum" /\ b[1].representation.rep = "Enum"
     /\ Len(a[1].representation.labels) < Len(b[1].representation.labels)) =>
        LET al == a[1].representation.labels
            bl == b[1].representation.labels
            em == Emitted(al, bl)
            Rank(i) == Cardinality({j \in em : j <= i})
        IN  /\ d.tag = "Ok"
            /\ Len(d.val) = Cardinality(em)
            /\ \A i \in em :
                LET st == d.val[Rank(i)]
                IN  /\ st.kind = "AlterType" /\ st.name = a[1].name
                    /\ st.operation.op = "AddValue"
                    /\ st.operation.value = bl[i]
                    /\ st.operation.position =
                         IF Consumed(al, bl, i) >= Len(al) THEN <<>>
                         ELSE IF i > 1 THEN <<After(bl[i - 1])>>
                         ELSE <<Before(al[1])>>
            /\ (a[1] = C10_ExampleA /\ b[1] = C10_ExampleB) =>
                  d.val = <<AlterType("bug_status", AddValue("new", <<Before("open")>>)),
                            AlterType("bug_status", AddValue("assigned", <<After("open")>>)),
                            AlterType("bug_status", AddValue("closed", <<After("assigned")>>))>>

C10_Witness ==
    /\ pc = "stmt_diffed" /\ a[1] = C10_ExampleA /\ b[1] = C10_ExampleB
    /\ d.some /\ Len(d.val) = 3

(***************************************************************************)
(* Inputs of the path template: file names put together from a prefix, a   *)
(* number, a name, an up/down part and the extension, as migration files   *)
(* are named; some of them are not accepted by the parser.                 *)
(***************************************************************************)
PathPrefixes ==
    {<<>>,
     <<"v">>,
     <<"z", "v">>}

PathNumbers ==
    {<<>>,
     <<"0", "1", "7">>,
     <<"1">>,
     <<"2", "0", "2", "3", "0", "1", "0", "1">>,
     <<"2", "0", "2", "3", "-", "0", "1", "-", "0", "4">>,
     <<"2", "0", "2", "3", "0", "2", "3", "1">>,
     <<"2", "0", "0", "3", "-", "1", "0", "-", "0", "2", ".", "0", "1", "-", "2", "0", "-", "0", "0", "0">>,
     <<"2", "0", "0", "3", "-", "1", "0", "-", "0", "2", ".", "0", "1", "-", "2", "0", "-", "0", "0", ".", "0", "0", "5">>,
     <<"2", "0", "0", "2", "1", "1", "0", "4", "0", "3", "5", "3", "2", "0", "0">>,
     <<"2", "0", "2", "0", "1", "2", "3", "1", "1", "9", "0", "0", "0", "0", "1", "2", "3", "4", "5", "6">>,
     <<"1", "7", "4", "1", "1", "4", "1", "4", "5", "2">>,
     <<"0", "1", "7", "4", "1", "1", "4", "1", "4", "5", "2">>,
     <<"1", "7", "0", "4", "0", "6", "7", "2", "0", "0", "1", "2", "3">>,
     <<"1", "0", "0", "7", "7", "2", "8", "0", "0", "0", "0", "0", "0", "0", "0", "0">>,
     <<"1", "0", "3", "6", "4", "0", "0", "0", "0", "0", "0", "0", "0", "0", "0", "0", "0", "0", "0">>,
     <<"9", "4", "6", "6", "8", "4", "7", "9", "9">>,
     <<"4", "1", "0", "2", "5", "3", "1", "1", "9", "9">>,
     <<"4", "1", "0", "2", "5", "3", "1", "2", "0", "0">>,
     <<"9", "2", "2", "3", "3", "7", "2", "0", "3", "6", "8", "5", "4", "7", "7", "5", "8", "0", "8">>,
     <<"1", ".", "2", ".", "3">>,
     <<"0", "0", "1", "1", ".", "0", "0", "1", "2", ".", "0", "0", "1", "3">>,
     <<"2", "0", "2", "3", "0", "1", "0", "1", "_", "1", "7", "4", "1", "1", "4", "1", "4", "5", "2">>,
     <<"0", "1", "7", "-", "0", "0", "5">>}

PathNames ==
    {<<>>,
     <<"_", "a">>,
     <<"-", "a", "b">>,
     <<"_", "a", "/", "d", "o">>}

PathUpDowns ==
    {<<>>,
     <<".", "u", "p">>,
     <<".", "d", "o", "w", "n">>,
     <<".", "d", "o">>,
     <<".", "u", "n", "d", "o">>,
     <<"/", "u", "p">>,
     <<"/", "u", "n", "d", "o">>}

SqlExt == <<".", "s", "q", "l">>

Paths ==
    {p \o n \o nm \o u \o SqlExt :
        p \in PathPrefixes, n \in PathNumbers, nm \in PathNames, u \in PathUpDowns}

\* instants a migration may be written at
Instants ==
    {Instant(DaysFromCivil(2023, 1, 1), 3723, 0),
     Instant(DaysFromCivil(2025, 3, 5), 8652, 5000000),
     Instant(DaysFromCivil(2025, 3, 5), 8652, 5000001),
     Instant(DaysFromCivil(2031, 11, 30), 50400, 120000000)}

DataNames == {<<>>, <<"a">>, <<"b", "c">>}
DataUpDowns == {<<>>, <<"Up">>, <<"Down">>}
DataCounters == {<<>>, <<<<"7">>>>, <<<<"1", "8">>>>, <<<<"1", "9">>>>}
DataRandoms == {<<>>, <<<<"5">>>>, <<<<"6">>>>}
DataSemvers ==
    {<<>>,
     <<Semver(<<"1">>, <<"2">>, <<"3">>, <<1, 1, 1>>)>>,
     <<Semver(<<"1">>, <<"3">>, <<"0">>, <<1, 1, 1>>)>>,
     <<Semver(<<"11">>, <<"12">>, <<"13">>, <<4, 4, 4>>)>>,
     <<DefaultSemver>>}

\* the TemplateData run_migration builds (timestamp now, the command's name,
\* up_down by include_down, the rest unset), and data with every field set
ChosenData ==
    {TemplateData(ts, <<"a">>, ud, <<>>, <<>>, <<>>) :
        ts \in {Instant(DaysFromCivil(2023, 1, 1), 3723, 0),
                Instant(DaysFromCivil(2025, 3, 5), 8652, 5000000),
                Instant(DaysFromCivil(2031, 11, 30), 50400, 120000000),
                Instant(DaysFromCivil(2024, 2, 29), 45, 0)},
        ud \in {<<>>, <<"Up">>}}
    \cup {TemplateData(Instant(DaysFromCivil(2025, 3, 5), 8652, 5000000), <<"b", "c">>,
                       <<"Down">>, <<<<"1", "8">>>>, <<<<"5">>>>,
                       <<Semver(<<"1">>, <<"2">>, <<"3">>, <<1, 1, 1>>)>>)}

(***************************************************************************)
(* SpecTemplate: a migration file name is parsed into a template (or the   *)
(* default template is taken when there is no migration yet), the data is  *)
(* inferred from the template or chosen, with_up_down is applied, and the  *)
(* template is resolved (parse_migrations, run_migration, and              *)
(* tests::test_parse_resolve).                                             *)
(***************************************************************************)
NoTrees == a = <<>> /\ b = <<>> /\ d = NoResult /\ m = NoResult

InitTemplate ==
    /\ pc = "start"
    /\ NoTrees
    /\ path \in Paths \cup {<<>>}
    /\ parsed = NoResult
    /\ tmpl = <<>>
    /\ data = <<>>
    /\ out = <<>>

\* parse_migrations: the last migration's path is parsed
ParsePath ==
    /\ pc = "start"
    /\ path # <<>>
    /\ parsed' = parse(path)
    /\ tmpl' = parsed'.val
    /\ pc' = IF parsed'.tag = "Ok" THEN "parsed" ELSE "rejected"
    /\ UNCHANGED <<treeVars, path, data, out>>

\* parse_migrations: no migration yet
UseDefault ==
    /\ pc = "start"
    /\ path = <<>>
    /\ tmpl' = DefaultPathTemplate
    /\ pc' = "parsed"
    /\ UNCHANGED <<treeVars, path, parsed, data, out>>

\* tests::data
InferTemplateData ==
    /\ pc = "parsed"
    /\ data' = InferData(tmpl).val
    /\ pc' = IF InferData(tmpl).tag = "Ok" THEN "data" ELSE "panicked"
    /\ UNCHANGED <<treeVars, path, parsed, tmpl, out>>

\* run_migration's path_data
ChooseTemplateData ==
    /\ pc = "parsed"
    /\ data' \in ChosenData
    /\ pc' = "data"
    /\ UNCHANGED <<treeVars, path, parsed, tmpl, out>>

WithUpDown ==
    /\ pc = "data"
    /\ tmpl' = with_up_down(tmpl)
    /\ pc' = "with_up_down"
    /\ UNCHANGED <<treeVars, path, parsed, data, out>>

ResolvePath ==
    /\ pc \in {"data", "with_up_down"}
    /\ out' = Resolve(tmpl, data)
    /\ pc' = "resolved"
    /\ UNCHANGED <<treeVars, path, parsed, tmpl, data>>

NextTemplate ==
    \/ ParsePath
    \/ UseDefault
    \/ InferTemplateData
    \/ ChooseTemplateData
    \/ WithUpDown
    \/ ResolvePath

SpecTemplate == InitTemplate /\ [][NextTemplate]_vars

(***************************************************************************)
(* Properties of the path template                                         *)
(***************************************************************************)
\* the template the file name stands for, before with_up_down
Original == IF parsed.tag = "Ok" THEN parsed.val ELSE DefaultPathTemplate

HasToken(T, k) == \E i \in DOMAIN TokensOf(T) : TokensOf(T)[i].t = k

\* the data is the one tests::data infers from the parsed template
Inferred ==
    /\ parsed.tag = "Ok"
    /\ InferData(parsed.val).tag = "Ok"
    /\ data = InferData(parsed.val).val

\* C5: for every file name the parser accepts, resolving the parsed template
\* (after with_up_down) with the TemplateData inferred from the template's own
\* tokens gives back the file name, character for character.
C5_TemplateRoundTrip ==
    (pc = "resolved" /\ Inferred /\ tmpl = with_up_down(parsed.val)) => out = path

\* T with Dot, UpDown(Up) put before the last token of its last segment
InsertedUpDown(T) ==
    LET n == Len(T.segments)
        toks == T.segments[n].tokens
    IN  PathTemplate([T.segments EXCEPT ![n] =
            Segment(@.kind, Take(toks, Len(toks) - 1) \o <<Dot, UpDown("Up"), toks[Len(toks)]>>)])

\* C7: with_up_down applied again changes nothing; it changes nothing on a
\* template that has an UpDown or DoUndo token; on any other template it puts
\* Dot, UpDown(Up) right before the Extension that ends the last segment.
C7_WithUpDown ==
    pc = "with_up_down" =>
        /\ with_up_down(tmpl) = tmpl
        /\ includes_up_down(Original) => tmpl = Original
        /\ ~includes_up_down(Original) =>
              LET toks == Original.segments[Len(Original.segments)].tokens
              IN  /\ toks[Len(toks)] = Extension
                  /\ tmpl = InsertedUpDown(Original)

C7_Witness ==
    /\ pc = "with_up_down"
    /\ ~includes_up_down(Original)
    /\ tmpl # Original
    /\ with_up_down(tmpl) = tmpl

\* every TemplateData that differs from dat in exactly one component
Changed(dat) ==
    {[kind |-> "name", data |-> [dat EXCEPT !.name = n]] :
        n \in DataNames \ {dat.name}}
    \cup {[kind |-> "timestamp", data |-> [dat EXCEPT !.timestamp = ts]] :
        ts \in Instants \ {dat.timestamp}}
    \cup {[kind |-> "counter", data |-> [dat EXCEPT !.counter = c]] :
        c \in DataCounters \ {dat.counter}}
    \cup {[kind |-> "random", data |-> [dat EXCEPT !.random = r]] :
        r \in DataRandoms \ {dat.random}}
    \cup {[kind |-> "semver", data |-> [dat EXCEPT !.semver = v]] :
        v \in DataSemvers \ {dat.semver}}
    \cup {[kind |-> "up_down", data |-> [dat EXCEPT !.up_down = u]] :
        u \in DataUpDowns \ {dat.up_down}}

WidthsFit(v) ==
    /\ Len(v.major) <= v.widths[1]
    /\ Len(v.minor) <= v.widths[2]
    /\ Len(v.patch) <= v.widths[3]

\* the template T writes the component that the change c of dat is about
Renders(T, dat, c) ==
    IF c.kind = "name" THEN HasToken(T, "Name")
    ELSE IF c.kind = "up_down" THEN HasToken(T, "UpDown") \/ HasToken(T, "DoUndo")
    ELSE IF c.kind = "counter"
         THEN HasToken(T, "PaddedNumber") /\ dat.counter # <<>> /\ c.data.counter # <<>>
    ELSE IF c.kind = "random"
         THEN HasToken(T, "RandomNumber") /\ dat.random # <<>> /\ c.data.random # <<>>
    ELSE IF c.kind = "semver"
         THEN /\ HasToken(T, "Semver")
              /\ dat.semver # <<>> /\ c.data.semver # <<>>
              /\ WidthsFit(dat.semver[1]) /\ WidthsFit(c.data.semver[1])
    ELSE /\ HasToken(T, "Timestamp")
         /\ dat.timestamp.days # c.data.timestamp.days

RenamedFrom(delta) ==
    {delta[i].operation.from :
        i \in {j \in DOMAIN delta : delta[j].kind = "AlterType"
                                    /\ delta[j].operation.op = "RenameValue"}}

\* C11: diffing two enum CreateType statements of the same name fails with
\* RemoveEnumLabel whenever a has more labels than b, and it never succeeds
\* with a delta that leaves a label of a which b does not contain (a label
\* the delta renames is not left).
C11_RemovedLabelIsError ==
    (/\ BothKind("CreateType") /\ a[1].name = b[1].name
     /\ a[1].representation.rep = "Enum" /\ b[1].representation.rep = "Enum") =>
        LET al == a[1].representation.labels
            bl == b[1].representation.labels
        IN  /\ Len(al) > Len(bl) => d = Err("RemoveEnumLabel")
            /\ (d.tag = "Ok" /\ d.some) =>
                    Range(al) \subseteq (Range(bl) \cup RenamedFrom(d.val))

(***************************************************************************)
(* Properties of the tree diff: drops.                                     *)
(***************************************************************************)
\* st is the drop of the kind of the Create statement sa, naming sa
DropsObject(st, sa) ==
    CASE sa.kind = "CreateTable" ->
            st.kind = "Drop" /\ st.object_type = "Table" /\ st.names = <<sa.name>>
      [] sa.kind = "CreateIndex" ->
            st.kind = "Drop" /\ st.object_type = "Index" /\ st.names = sa.name
      [] sa.kind = "CreateType" ->
            st.kind = "Drop" /\ st.object_type = "Type" /\ st.names = <<sa.name>>
      [] sa.kind = "CreateExtension" ->
            st.kind = "DropExtension" /\ st.names = <<sa.name>>
      [] sa.kind = "CreateDomain" ->
            st.kind = "DropDomain" /\ st.name = sa.name

\* the statement a[i] creates an object no statement of b creates
CreatedOnlyInA(i) ==
    a[i].kind \in CreateKinds /\ ~\E j \in DOMAIN b : SameObject(a[i], b[j])

\* C12: for every Create statement of a (table, index, type, extension,
\* domain) with no statement of the same kind and name in b, a diff that
\* succeeds holds a drop of the matching kind naming it.
C12_MissingCreateIsDropped ==
    (pc = "diffed" /\ d.tag = "Ok") =>
        \A i \in DOMAIN a :
            CreatedOnlyInA(i) => \E k \in DOMAIN d.val : DropsObject(d.val[k], a[i])

(***************************************************************************)
(* Properties of migrate on a schema tree and one migration.               *)
(***************************************************************************)
IsCreate(s) == s.kind \in CreateKinds

\* the position in a of the statement creating the object st creates
PosInA(st) == CHOOSE i \in DOMAIN a : SameObject(a[i], st)

\* C13: the output of migrate(a, b) is statements of a, rewritten or not,
\* in a's relative order, followed by every Create statement of b verbatim
\* in b's order; a statement of b that is not a Create is not in the output.
C13_SurvivorsThenCreates ==
    (pc = "applied" /\ m.tag = "Ok") =>
        LET creates == SelectSeq(b, IsCreate)
            n == Len(m.val) - Len(creates)
        IN  /\ m.some /\ n >= 0 /\ n <= Len(a)
            /\ SubSeq(m.val, n + 1, Len(m.val)) = creates
            /\ \A k \in 1..n : \E i \in DOMAIN a : SameObject(a[i], m.val[k])
            /\ \A k, l \in 1..n : k < l => PosInA(m.val[k]) < PosInA(m.val[l])
            /\ \A k \in DOMAIN m.val : IsCreate(m.val[k])

C13_Witness ==
    /\ pc = "applied" /\ m.tag = "Ok" /\ Len(a) = 2 /\ Len(b) = 2
    /\ b[1].kind = "AlterTable" /\ b[2].kind = "CreateIndex"
    /\ Len(m.val) = 3 /\ m.val[1] # a[1] /\ m.val[2] = a[2] /\ m.val[3] = b[2]

\* sb is a Drop of the object kind of sa naming exactly the object sa creates
DropNames(sb, sa) ==
    /\ sb.kind = "Drop"
    /\ CASE sa.kind = "CreateTable" -> sb.object_type = "Table" /\ sb.names = <<sa.name>>
         [] sa.kind = "CreateIndex" -> sb.object_type = "Index" /\ sb.names = sa.name
         [] sa.kind = "CreateType" -> sb.object_type = "Type" /\ sb.names = <<sa.name>>
         [] OTHER -> FALSE

\* the statements of the result that stem from a: all but the Create
\* statements of b chained behind them
Survivors == SubSeq(m.val, 1, Len(m.val) - Len(SelectSeq(b, IsCreate)))

\* C14: a CreateTable, CreateIndex or CreateType of a is absent from
\* migrate(a, b) whenever b contains a Drop of the matching object kind
\* naming exactly that object; when b holds only Drop statements of another
\* kind or another name the statement is left in place.
C14_DropRemoves ==
    (pc = "applied" /\ m.tag = "Ok") =>
        \A i \in DOMAIN a :
            a[i].kind \in {"CreateTable", "CreateIndex", "CreateType"} =>
                /\ (\E j \in DOMAIN b : DropNames(b[j], a[i])) =>
                        ~\E k \in DOMAIN Survivors : SameObject(a[i], Survivors[k])
                /\ (\A j \in DOMAIN b : b[j].kind = "Drop" /\ ~DropNames(b[j], a[i])) =>
                        \E k \in DOMAIN Survivors : Survivors[k] = a[i]

\* sb is the DropExtension or DropDomain naming the object sa creates
Eliminates(sb, sa) ==
    \/ sa.kind = "CreateExtension" /\ sb.kind = "DropExtension"
       /\ sa.name \in Range(sb.names)
    \/ sa.kind = "CreateDomain" /\ sb.kind = "DropDomain" /\ sb.name = sa.name

\* C15: when a holds CreateExtension(n) (or CreateDomain(n)) and b holds a
\* DropExtension naming n (or DropDomain(n)), migrate(a, b) succeeds and
\* its result does not hold that Create statement.
C15_ExtensionAndDomainDropped ==
    pc = "applied" =>
        \A i \in DOMAIN a :
            (\E j \in DOMAIN b : Eliminates(b[j], a[i])) =>
                /\ m.tag = "Ok"
                /\ ~\E k \in DOMAIN Survivors : SameObject(a[i], Survivors[k])

(***************************************************************************)
(* SpecAlter: one ALTER TABLE of up to MaxOps operations applied to the    *)
(* tree holding the table it names.                                        *)
(***************************************************************************)
MaxOps == 3

AlterOps ==
    {AddColumnOp(FALSE, c) :
        c \in {ColumnDef("bar", "TEXT"), ColumnDef("baz", "TEXT"), ColumnDef("id", "BIGINT")}}
    \cup {DropColumnOp(n, FALSE) : n \in {"id", "bar", "baz"}}
    \cup {RenameColumnOp("id", "key"), RenameTableOp("quux")}

InitAlter ==
    /\ pc = "start"
    /\ \E t \in StmtTables : a = <<t>>
    /\ \E ops \in SeqsUpTo(AlterOps, MaxOps) : b = <<AlterTable("foo", FALSE, ops)>>
    /\ d = NoResult
    /\ m = NoResult
    /\ NoTemplate

SpecAlter == InitAlter /\ [][NextMigrate]_vars

\* the column list after one operation, as the claim reads it
AfterOp(cols, op) ==
    IF op.op = "AddColumn" THEN Append(cols, op.column_def)
    ELSE SelectSeq(cols, LAMBDA c : c.name # op.column_name)

RECURSIVE AfterOps(_, _)
AfterOps(cols, ops) ==
    IF ops = <<>> THEN cols ELSE AfterOps(AfterOp(cols, Head(ops)), Tail(ops))

\* the names the operations speak of
OpNames(ops) ==
    {IF ops[i].op = "AddColumn" THEN ops[i].column_def.name ELSE ops[i].column_name :
        i \in DOMAIN ops}

C16_ExampleTable ==
    CreateTable("foo",
        <<ColumnDef("bar", "TEXT"),
          [ColumnDef("id", "INT") EXCEPT !.options = <<ColumnOption("PrimaryKey", "-")>>]>>,
        FALSE)

\* C16: ALTER TABLE applied to the CreateTable it names folds its
\* operations left to right: AddColumn appends the column definition at
\* the end of the column list, DropColumn removes every column with that
\* name; the columns no operation names keep their definition and their
\* relative order.  (bar TEXT, id INT PRIMARY KEY) with DROP COLUMN bar
\* gives (id INT PRIMARY KEY).
C16_AlterTableFold ==
    (/\ pc = "applied" /\ Len(a) = 1 /\ Len(b) = 1
     /\ a[1].kind = "CreateTable" /\ b[1].kind = "AlterTable" /\ b[1].name = a[1].name
     /\ \A i \in DOMAIN b[1].operations :
            b[1].operations[i].op \in {"AddColumn", "DropColumn"}) =>
        LET ops == b[1].operations
            Untouched(c) == c.name \notin OpNames(ops)
        IN  /\ m.tag = "Ok" /\ m.some /\ Len(m.val) = 1
            /\ m.val[1] = [a[1] EXCEPT !.columns = AfterOps(a[1].columns, ops)]
            /\ SelectSeq(m.val[1].columns, Untouched) = SelectSeq(a[1].columns, Untouched)
            /\ (ops # <<>> /\ ops[Len(ops)].op = "DropColumn") =>
                    ops[Len(ops)].column_name \notin ColumnNames(m.val[1].columns)
            /\ (ops # <<>> /\ ops[Len(ops)].op = "AddColumn") =>
                    m.val[1].columns[Len(m.val[1].columns)] = ops[Len(ops)].column_def
            /\ migrate_alter_table(C16_ExampleTable, <<DropColumnOp("bar", FALSE)>>)
                    = OkSome([C16_ExampleTable EXCEPT !.columns = Tail(@)])

\* an added id makes two columns called id, and the drop removes both
C16_Witness ==
    /\ pc = "applied" /\ b[1].kind = "AlterTable" /\ Len(b[1].operations) = 3
    /\ b[1].operations[1].op = "AddColumn" /\ b[1].operations[1].column_def.name = "id"
    /\ b[1].operations[2].op = "DropColumn" /\ b[1].operations[2].column_name = "id"
    /\ b[1].operations[3].op = "AddColumn"
    /\ Len(a[1].columns) = 3 /\ "id" \in ColumnNames(a[1].columns)
    /\ m.tag = "Ok" /\ Len(m.val[1].columns) = 3

(***************************************************************************)
(* parse_migrations: the schema tree is built by folding the migration     *)
(* files, in sorted order, over a tree with migrate.                       *)
(***************************************************************************)
MaxFiles == 2        \* migration files in the migrations directory

\* Option::unwrap_or_else(SyntaxTree::empty) on the value of an Ok result
UnwrapOrEmpty(r) == IF r.some THEN r.val ELSE <<>>

\* the try_fold of parse_migrations from the tree schema on: the first
\* failing migrate ends the fold with its error
RECURSIVE FoldMigrations(_, _)
FoldMigrations(schema, files) ==
    IF files = <<>> THEN OkSome(schema)
    ELSE IF Migrate(schema, Head(files)).tag = "Err" THEN Migrate(schema, Head(files))
    ELSE FoldMigrations(UnwrapOrEmpty(Migrate(schema, Head(files))), Tail(files))

\* a migration cut into migrations of one statement each
OneByOne(mig) == [i \in DOMAIN mig |-> <<mig[i]>>]

\* C17: migrate(a, b) equals applying the statements of b one at a time, in
\* order: several ALTER statements of b that target one object are all
\* applied, and an ALTER or DROP of b that follows a CREATE of the same
\* object in b is applied to the created object.
C17_MigrateIsStatementFold ==
    pc = "applied" =>
        /\ m.tag = FoldMigrations(a, OneByOne(b)).tag
        /\ m.tag = "Ok" => m.val = FoldMigrations(a, OneByOne(b)).val

(***************************************************************************)
(* SpecFold: parse_migrations folding the migration files b, in order,     *)
(* over the tree a, which starts empty; m is the result of the last        *)
(* migrate.                                                                *)
(***************************************************************************)
MigrationFiles == SeqsUpTo(Migrations, MaxFiles)

InitFold ==
    /\ pc = "start"
    /\ a = <<>>
    /\ b \in MigrationFiles
    /\ d = NoResult
    /\ m = NoResult
    /\ NoTemplate

\* one turn of the try_fold closure: the next file is applied to the tree;
\* an error ends parse_migrations (`?`)
FoldFile ==
    /\ pc \in {"start", "folding"}
    /\ b # <<>>
    /\ m' = Migrate(a, Head(b))
    /\ IF m'.tag = "Ok"
       THEN a' = UnwrapOrEmpty(m') /\ b' = Tail(b) /\ pc' = "folding"
       ELSE pc' = "failed" /\ UNCHANGED <<a, b>>
    /\ UNCHANGED <<d, tmplVars>>

\* no file is left: parse_migrations returns the tree
FoldDone ==
    /\ pc \in {"start", "folding"}
    /\ b = <<>>
    /\ pc' = "parsed"
    /\ UNCHANGED <<a, b, d, m, tmplVars>>

NextFold == FoldFile \/ FoldDone

SpecFold == InitFold /\ [][NextFold]_vars

\* C18: starting from the empty tree, after folding any sequence of
\* migrations with migrate the tree holds at most one Create statement per
\* kind and name.
C18_SchemaUniqueness ==
    pc \in {"folding", "parsed"} => UniqueObjects(a)

(***************************************************************************)
(* SpecRun: run_migration.  a is the tree parse_migrations returned, b the *)
(* tree of the schema file, tmpl the path template of the migration        *)
(* options; d is the forward diff (migrations -> schema), m the reverse    *)
(* diff, data the TemplateData of the up path, out the files written and   *)
(* the lines sent to stderr.  Reading and writing files does not fail.     *)
(***************************************************************************)
Warning == "WARNING: error creating down migration"
Writing == "writing"
NothingToDo == "existing migrations and the schema file are the same"

MigrationFile(p, tree) == [path |-> p, tree |-> tree]
Output(files, stderr) == [files |-> files, stderr |-> stderr]

\* MigrationOptions::reconcile on the include_down of parse_migrations: the
\* command's flag wins when it is given
reconcile(T, cmd_include_down) ==
    IF cmd_include_down # <<>> THEN cmd_include_down[1] ELSE includes_up_down(T)

\* write_migration: the file is created, or truncated when it exists
write_migration(o, migration, p) ==
    Output(IF \E i \in DOMAIN o.files : o.files[i].path = p
           THEN [i \in DOMAIN o.files |->
                    IF o.files[i].path = p THEN MigrationFile(p, migration)
                    ELSE o.files[i]]
           ELSE Append(o.files, MigrationFile(p, migration)),
           Append(o.stderr, Writing))

\* the TemplateData of the up path
PathData(now, cmd_name, include_down) ==
    TemplateData(now, cmd_name, IF include_down THEN <<"Up">> ELSE <<>>, <<>>, <<>>, <<>>)

\* .inspect_err(eprintln!).unwrap_or(None).unwrap_or_else(SyntaxTree::empty)
DownMigration(rev) == IF rev.tag = "Ok" THEN UnwrapOrEmpty(rev) ELSE <<>>

DownWarning(rev) == IF rev.tag = "Err" THEN <<Warning>> ELSE <<>>

RunOutcome(at, fwd, rev, T, dat, o) ==
    [pc |-> at, d |-> fwd, m |-> rev, tmpl |-> T, data |-> dat, out |-> o]

\* the Some(up_migration) arm: T is the template the paths are resolved
\* from, rev the reverse diff (NoResult when no down migration is asked for)
WriteMigrations(fwd, rev, T, dat, include_down) ==
    RunOutcome("written", fwd, rev, T, dat,
        IF include_down
        THEN write_migration(
                write_migration(Output(<<>>, DownWarning(rev)), fwd.val, Resolve(T, dat)),
                DownMigration(rev),
                Resolve(T, [dat EXCEPT !.up_down = <<"Down">>]))
        ELSE write_migration(Output(<<>>, <<>>), fwd.val, Resolve(T, dat)))

\* the match on migrations.diff(&schema)?
AfterForwardDiff(fwd, migrations, schema, T, include_down, dat) ==
    IF fwd.tag = "Err"
    THEN RunOutcome("error", fwd, NoResult, T, <<>>, Output(<<>>, <<>>))
    ELSE IF ~fwd.some
    THEN RunOutcome("same", fwd, NoResult, T, <<>>, Output(<<>>, <<NothingToDo>>))
    ELSE WriteMigrations(fwd,
                         IF include_down THEN Diff(schema, migrations) ELSE NoResult,
                         IF include_down THEN with_up_down(T) ELSE T,
                         dat, include_down)

\* run_migration with the `?` operator on the reverse diff: its failure
\* ends the command before a file is written
run_migration_ReverseDiffAborts(migrations, schema, T, include_down, now, cmd_name) ==
    IF /\ include_down
       /\ Diff(migrations, schema).tag = "Ok" /\ Diff(migrations, schema).some
       /\ Diff(schema, migrations).tag = "Err"
    THEN RunOutcome("error", Diff(migrations, schema), Diff(schema, migrations),
                    T, <<>>, Output(<<>>, <<>>))
    ELSE AfterForwardDiff(Diff(migrations, schema), migrations, schema, T, include_down,
                          PathData(now, cmd_name, include_down))

\* run_migration, after the migrations and the schema file are parsed
run_migration(migrations, schema, T, include_down, now, cmd_name) ==
    AfterForwardDiff(Diff(migrations, schema), migrations, schema, T, include_down,
                     PathData(now, cmd_name, include_down))

RunTemplates ==
    {DefaultPathTemplate,
     parse(<<"0", "1", "7", "_", "a">> \o SqlExt).val,
     parse(<<"0", "1", "7", "_", "a", ".", "d", "o">> \o SqlExt).val}

RunNow == Instant(DaysFromCivil(2025, 3, 5), 8652, 5000000)
RunName == <<"a", "b">>

InitRun ==
    /\ pc = "start"
    /\ a \in Trees
    /\ b \in Trees
    /\ tmpl \in RunTemplates
    /\ d = NoResult
    /\ m = NoResult
    /\ path = <<>> /\ parsed = NoResult /\ data = <<>>
    /\ out = Output(<<>>, <<>>)

\* the command, with its --include-down flag absent, true or false
RunMigration ==
    /\ pc = "start"
    /\ \E cmd_include_down \in {<<>>, <<TRUE>>, <<FALSE>>} :
         LET r == run_migration(a, b, tmpl, reconcile(tmpl, cmd_include_down),
                                RunNow, RunName)
         IN  /\ pc' = r.pc /\ d' = r.d /\ m' = r.m
             /\ tmpl' = r.tmpl /\ data' = r.data /\ out' = r.out
    /\ UNCHANGED <<a, b, path, parsed>>

NextRun == RunMigration

SpecRun == InitRun /\ [][NextRun]_vars

\* C19: with include_down enabled a failure of the reverse diff does not
\* block the up migration: the error is reported as a warning, the down
\* migration is written as the empty tree and the up migration is written
\* too; a failure of the forward diff ends the command with the error and
\* no file is written.
C19_DownFailureIsWarning ==
    pc # "start" =>
        /\ m.tag = "Err" =>
            /\ pc = "written" /\ d.tag = "Ok" /\ d.some
            /\ out.stderr = <<Warning, Writing, Writing>>
            /\ Len(out.files) = 2
            /\ out.files[1] = MigrationFile(Resolve(tmpl, data), d.val)
            /\ out.files[2] = MigrationFile(Resolve(tmpl, [data EXCEPT !.up_down = <<"Down">>]),
                                            <<>>)
            /\ out.files[1].path # out.files[2].path
        /\ d.tag = "Err" => pc = "error" /\ out.files = <<>> /\ m = NoResult

C19_WitnessReverse ==
    /\ pc = "written" /\ m = Err("RemoveEnumLabel") /\ data.up_down = <<"Up">>
    /\ Len(out.files) = 2 /\ out.files[2].tree = <<>> /\ out.files[1].tree # <<>>

C19_WitnessForward ==
    pc = "error" /\ d.tag = "Err" /\ out.files = <<>>

C19_Witness == C19_WitnessReverse

(***************************************************************************)
(* Properties of the tree diff: the order of the emitted statements.       *)
(***************************************************************************)
\* the object a statement creates, alters or drops: its class and its name
\* (no name for an unnamed index)
ObjectOf(st) ==
    CASE st.kind \in {"CreateTable", "AlterTable"} -> <<"Table", <<st.name>>>>
      [] st.kind = "CreateIndex" -> <<"Index", st.name>>
      [] st.kind \in {"CreateType", "AlterType"} -> <<"Type", <<st.name>>>>
      [] st.kind = "CreateExtension" -> <<"Extension", <<st.name>>>>
      [] st.kind = "DropExtension" -> <<"Extension", st.names>>
      [] st.kind \in {"CreateDomain", "DropDomain"} -> <<"Domain", <<st.name>>>>
      [] st.kind = "Drop" -> <<st.object_type, st.names>>

\* the position in a of the statement creating the object st is about
OriginInA(st) == CHOOSE i \in DOMAIN a : ObjectOf(a[i]) = ObjectOf(st)

\* the statements of b whose kind and name no statement of a has
NewInB == SelectSeq(b, LAMBDA sb : ~\E i \in DOMAIN a : SameObject(sb, a[i]))

\* C20: a diff that succeeds holds first the operations derived from the
\* statements of a, in a's order, then the statements of b with no match of
\* kind and name in a, verbatim and in b's order; it is the value the two
\* sequences determine.
C20_DiffOrder ==
    (pc = "diffed" /\ d.tag = "Ok") =>
        LET n == Len(d.val) - Len(NewInB)
        IN  /\ n >= 0
            /\ SubSeq(d.val, n + 1, Len(d.val)) = NewInB
            /\ \A k \in 1..n : \E i \in DOMAIN a : ObjectOf(a[i]) = ObjectOf(d.val[k])
            /\ \A k, l \in 1..n : k < l => OriginInA(d.val[k]) <= OriginInA(d.val[l])
            /\ d = Diff(a, b)

C20_Witness ==
    /\ pc = "diffed" /\ d.tag = "Ok" /\ Len(a) = 2 /\ Len(b) = 2 /\ Len(d.val) = 3
    /\ d.val[1].kind = "AlterTable" /\ d.val[2].kind = "Drop"
    /\ d.val[3] = b[1] /\ b[2].kind = "CreateTable"

(***************************************************************************)
(* Properties of migrate: the frame.                                       *)
(***************************************************************************)
\* sb is an ALTER or a DROP of the kind of sa that names the object of sa,
\* alone or among others
TargetsByKindAndName(sb, sa) ==
    CASE sa.kind = "CreateTable" ->
            \/ sb.kind = "AlterTable" /\ sb.name = sa.name
            \/ sb.kind = "Drop" /\ sb.object_type = "Table" /\ sa.name \in Range(sb.names)
      [] sa.kind = "CreateIndex" ->
            /\ sb.kind = "Drop" /\ sb.object_type = "Index"
            /\ sa.name # <<>> /\ sa.name[1] \in Range(sb.names)
      [] sa.kind = "CreateType" ->
            \/ sb.kind = "AlterType" /\ sb.name = sa.name
            \/ sb.kind = "Drop" /\ sb.object_type = "Type" /\ sa.name \in Range(sb.names)
      [] sa.kind = "CreateExtension" ->
            sb.kind = "DropExtension" /\ sa.name \in Range(sb.names)
      [] sa.kind = "CreateDomain" -> sb.kind = "DropDomain" /\ sb.name = sa.name
      [] OTHER -> FALSE

\* the statements of a that no statement of b targets, by position
Untargeted == {i \in DOMAIN a : ~\E j \in DOMAIN b : TargetsByKindAndName(b[j], a[i])}

\* the position of the statement st among the statements stemming from a
PosInSurvivors(st) == CHOOSE k \in DOMAIN Survivors : Survivors[k] = st

\* C21: every Create statement of a that no statement of b targets by kind
\* and name is in migrate(a, b) unchanged, and these statements keep the
\* relative order they have in a.
C21_MigrateFrame ==
    (pc = "applied" /\ m.tag = "Ok") =>
        /\ \A i \in Untargeted : \E k \in DOMAIN Survivors : Survivors[k] = a[i]
        /\ \A i, j \in Untargeted :
                i < j => PosInSurvivors(a[i]) < PosInSurvivors(a[j])

C21_Witness ==
    /\ pc = "applied" /\ m.tag = "Ok" /\ Len(a) = 2 /\ Len(b) = 2
    /\ Untargeted = {1, 2} /\ b[1].kind = "Drop" /\ b[2].kind = "AlterType"
    /\ Survivors = a

(***************************************************************************)
(* Properties of the enum diff: the round trip through migrate.            *)
(***************************************************************************)
\* the AlterType statements of a delta applied one after another to the
\* CreateType t, each by Statement::migrate
RECURSIVE ApplyAlterTypes(_, _)
ApplyAlterTypes(t, delta) ==
    IF delta = <<>> THEN OkSome(t)
    ELSE IF StatementMigrate(t, Head(delta)).tag = "Err" THEN StatementMigrate(t, Head(delta))
    ELSE ApplyAlterTypes(StatementMigrate(t, Head(delta)).val, Tail(delta))

\* C22: whenever the diff of two enum CreateType statements of one name
\* succeeds, applying the emitted AlterType operations one after another to
\* the labels of a yields exactly the labels of b.
C22_EnumRoundTrip ==
    (/\ BothKind("CreateType") /\ a[1].name = b[1].name
     /\ a[1].representation.rep = "Enum" /\ b[1].representation.rep = "Enum"
     /\ d.tag = "Ok") =>
        /\ ApplyAlterTypes(a[1], d.val).tag = "Ok"
        /\ ApplyAlterTypes(a[1], d.val).val.representation.labels
                = b[1].representation.labels

(***************************************************************************)
(* Properties of ALTER TABLE: renames.                                     *)
(***************************************************************************)
\* C23: ALTER TABLE ... RENAME COLUMN and ALTER TABLE ... RENAME TO are
\* applied to the CreateTable they name: migrate succeeds, the column
\* (the table) carries the new name in the result.
C23_RenamesApplied ==
    (/\ pc = "applied" /\ Len(a) = 1 /\ Len(b) = 1
     /\ a[1].kind = "CreateTable" /\ b[1].kind = "AlterTable" /\ b[1].name = a[1].name
     /\ Len(b[1].operations) = 1
     /\ b[1].operations[1].op \in {"RenameColumn", "RenameTable"}) =>
        /\ m.tag = "Ok" /\ m.some /\ Len(m.val) = 1
        /\ b[1].operations[1].op = "RenameColumn" =>
                m.val[1].columns =
                    [i \in DOMAIN a[1].columns |->
                        IF a[1].columns[i].name = b[1].operations[1].old_column_name
                        THEN [a[1].columns[i] EXCEPT
                                !.name = b[1].operations[1].new_column_name]
                        ELSE a[1].columns[i]]
        /\ b[1].operations[1].op = "RenameTable" =>
                m.val[1] = [a[1] EXCEPT !.name = b[1].operations[1].table_name]

(***************************************************************************)
(* SpecAlterType: one ALTER TYPE ... ADD VALUE applied to the tree holding *)
(* the enum it names; the label list may hold a label more than once.      *)
(***************************************************************************)
MaxEnumLabels == 3

EnumLabels == {"new", "open", "closed"}
AddedLabels == EnumLabels \cup {"critical"}
AddPositions == {<<>>} \cup {<<Before(x)>> : x \in AddedLabels}
                       \cup {<<After(x)>> : x \in AddedLabels}

InitAlterType ==
    /\ pc = "start"
    /\ \E ls \in SeqsUpTo(EnumLabels, MaxEnumLabels) :
            a = <<CreateType("bug_status", EnumRep(ls))>>
    /\ \E v \in AddedLabels, p \in AddPositions :
            b = <<AlterType("bug_status", AddValue(v, p))>>
    /\ d = NoResult
    /\ m = NoResult
    /\ NoTemplate

SpecAlterType == InitAlterType /\ [][NextMigrate]_vars

\* s without its element at position p
RemoveAt(s, p) == SubSeq(s, 1, p - 1) \o SubSeq(s, p + 1, Len(s))

\* the first position of x in s
FirstPos(s, x) == CHOOSE i \in DOMAIN s : s[i] = x /\ \A j \in 1..(i - 1) : s[j] # x

\* the position (counted from 1) the claim gives the added label in the
\* grown list
AddedAt(ls, pos) ==
    IF pos = <<>> THEN Len(ls) + 1
    ELSE IF pos[1].pos = "Before"
    THEN (IF pos[1].label \in Range(ls) THEN FirstPos(ls, pos[1].label) ELSE 1)
    ELSE (IF pos[1].label \in Range(ls) THEN FirstPos(ls, pos[1].label) + 1
          ELSE Len(ls) + 1)

\* C24: ADD VALUE on an enum inserts the label: Before(x) at the index of
\* the first label equal to x, or at index 0 when x is absent; After(x)
\* right after the first label equal to x, or at the end when x is absent;
\* at the end without a position.  The labels that were there keep their
\* order and the list grows by exactly one.
C24_AddValuePosition ==
    (/\ pc = "applied" /\ Len(a) = 1 /\ Len(b) = 1
     /\ a[1].kind = "CreateType" /\ a[1].representation.rep = "Enum"
     /\ b[1].kind = "AlterType" /\ b[1].name = a[1].name
     /\ b[1].operation.op = "AddValue") =>
        /\ m.tag = "Ok" /\ m.some /\ Len(m.val) = 1
        /\ m.val[1].kind = "CreateType" /\ m.val[1].name = a[1].name
        /\ LET ls == a[1].representation.labels
               rl == m.val[1].representation.labels
               p == AddedAt(ls, b[1].operation.position)
           IN  /\ Len(rl) = Len(ls) + 1
               /\ rl[p] = b[1].operation.value
               /\ RemoveAt(rl, p) = ls

C24_Witness ==
    /\ pc = "applied" /\ m.tag = "Ok"
    /\ a[1].representation.labels = <<"open", "new", "open">>
    /\ b[1].operation = AddValue("critical", <<After("open")>>)
    /\ m.val[1].representation.labels = <<"open", "critical", "new", "open">>

C24_WitnessAbsent ==
    /\ pc = "applied" /\ m.tag = "Ok"
    /\ a[1].representation.labels = <<"open", "new">>
    /\ b[1].operation = AddValue("critical", <<Before("closed")>>)
    /\ m.val[1].representation.labels = <<"critical", "open", "new">>

(***************************************************************************)
(* Properties of resolve: an unset up_down.                                *)
(***************************************************************************)
\* the tokens of a segment without its up/down tokens and without the Dot
\* standing right before one
ElideUpDown(toks) ==
    SelectSeq([i \in DOMAIN toks |->
                    IF \/ IsUpDownToken(toks[i])
                       \/ /\ toks[i].t = "Dot" /\ i + 1 \in DOMAIN toks
                          /\ IsUpDownToken(toks[i + 1])
                    THEN <<>> ELSE <<toks[i]>>],
              LAMBDA o : o # <<>>)

\* the text of the tokens that are left
ElidedText(T, dat) ==
    Flatten([i \in DOMAIN T.segments |->
        Flatten([j \in DOMAIN ElideUpDown(T.segments[i].tokens) |->
            ResolveToken(ElideUpDown(T.segments[i].tokens)[j][1], dat)])])

HasEmptyComponent(s) == \E i \in 1..(Len(s) - 1) : s[i] = "." /\ s[i + 1] = "."

\* C25: with data.up_down unset, resolve leaves out the up/down token and
\* the Dot right before it in the same segment, for UpDown and for DoUndo
\* alike, and the resolved name holds no empty component ("..").
C25_UnsetUpDownElided ==
    (pc = "resolved" /\ data.up_down = <<>>) =>
        /\ out = ElidedText(tmpl, data)
        /\ ~HasEmptyComponent(out)

(***************************************************************************)
(* Properties of the epoch timestamp parser: the accepted range.           *)
(***************************************************************************)
\* digits below the second in an epoch unit
FracOf(unit) ==
    IF unit = "Second" THEN 0 ELSE IF unit = "Milli" THEN 3
    ELSE IF unit = "Micro" THEN 6 ELSE 9

\* the integer v, read in the unit with frac digits below the second, is an
\* instant t with 2000-01-01T00:00:00 <= t < 2100-01-01T00:00:00
InHalfOpenRange(v, frac) ==
    /\ from_timestamp_unit(v, frac) # <<>>
    /\ from_timestamp_unit(v, frac)[1].days >= MIN_DATE
    /\ from_timestamp_unit(v, frac)[1].days < DaysFromCivil(2100, 1, 1)

InRangeInSomeUnit(s) ==
    /\ parse_to(s, I64_MAX) # <<>>
    /\ \E frac \in {0, 3, 6, 9} : InHalfOpenRange(parse_to(s, I64_MAX)[1], frac)

\* the epoch tokens of a template
EpochTokens(T) ==
    SelectSeq(TokensOf(T), LAMBDA tok : tok.t = "Timestamp" /\ tok.ts.ts = "Epoch")

\* C26: the epoch timestamp parser accepts an integer iff, in one of the four
\* units, its instant t satisfies 2000-01-01T00:00:00 <= t < 2100-01-01T00:00:00;
\* every epoch token of a parsed template stands for an instant of that
\* half-open range.
C26_EpochHalfOpenRange ==
    (pc \in {"parsed", "rejected"} /\ path # <<>>) =>
        /\ digit1(path).ok =>
              (epoch_timestamp(path).ok <=> InRangeInSomeUnit(digit1(path).v))
        /\ parsed.tag = "Ok" =>
              \A i \in DOMAIN EpochTokens(tmpl) :
                  InHalfOpenRange(EpochTokens(tmpl)[i].ts.value,
                                  FracOf(EpochTokens(tmpl)[i].ts.unit))

\* the same with the last accepted day, 2100-01-01, taken out of the inputs
C26_ExceptLastDay ==
    (path # <<>> /\ digit1(path).ok
        /\ digit1(path).v # <<"4", "1", "0", "2", "5", "3", "1", "1", "9", "9">>)
        => C26_EpochHalfOpenRange

(***************************************************************************)
(* Properties of diff: the operations of an emitted ALTER TABLE.           *)
(***************************************************************************)
\* C27: every AlterTable statement of a diff result carries at least one
\* operation, and each of its operations is an AddColumn or a DropColumn.
C27_AlterTableHasOperations ==
    (pc = "diffed" /\ d.tag = "Ok") =>
        \A i \in DOMAIN d.val :
            d.val[i].kind = "AlterTable" =>
                /\ d.val[i].operations # <<>>
                /\ \A j \in DOMAIN d.val[i].operations :
                       d.val[i].operations[j].op \in {"AddColumn", "DropColumn"}

\* the operations an emitted ALTER TABLE does carry are of the two kinds
C27_OnlyAddAndDrop ==
    (pc = "diffed" /\ d.tag = "Ok") =>
        \A i \in DOMAIN d.val :
            d.val[i].kind = "AlterTable" =>
                \A j \in DOMAIN d.val[i].operations :
                    d.val[i].operations[j].op \in {"AddColumn", "DropColumn"}

(***************************************************************************)
(* SpecDrop: a migration of one DROP statement naming several objects,     *)
(* applied to a schema tree (SyntaxTree::migrate).                         *)
(***************************************************************************)
MaxDropNames == 2

DropObjectNames(ot) ==
    IF ot = "Table" THEN {"foo", "bar", "baz"}
    ELSE IF ot = "Index" THEN {"title_idx", "code_idx", "foo"}
    ELSE {"bug_status", "compfoo", "foo"}

MultiDrops ==
    UNION {{Drop(ot, ie, ns) :
                ie \in BOOLEAN,
                ns \in {s \in SeqsUpTo(DropObjectNames(ot), MaxDropNames) :
                           Len(s) >= 2 /\ NoDup(s)}} :
           ot \in {"Table", "Index", "Type"}}

InitDrop ==
    /\ pc = "start"
    /\ a \in Trees
    /\ b \in {<<dr>> : dr \in MultiDrops}
    /\ d = NoResult
    /\ m = NoResult
    /\ NoTemplate

SpecDrop == InitDrop /\ [][NextMigrate]_vars

\* the one DROP statement sb names the object sa creates
NamedByDrop(sb, sa) ==
    CASE sa.kind = "CreateTable" -> sb.object_type = "Table" /\ sa.name \in Range(sb.names)
      [] sa.kind = "CreateIndex" ->
            sb.object_type = "Index" /\ sa.name # <<>> /\ sa.name[1] \in Range(sb.names)
      [] sa.kind = "CreateType" -> sb.object_type = "Type" /\ sa.name \in Range(sb.names)
      [] OTHER -> FALSE

\* C28: for a migration of one DROP TABLE / DROP INDEX / DROP TYPE naming
\* two or more objects, no Create statement of that kind with one of the
\* names is left in migrate(a, b).
C28_MultiNameDropRemovesAll ==
    (pc = "applied" /\ Len(b) = 1 /\ b[1].kind = "Drop" /\ Len(b[1].names) >= 2) =>
        /\ m.tag = "Ok"
        /\ \A i \in DOMAIN a :
               NamedByDrop(b[1], a[i]) =>
                   ~\E k \in DOMAIN m.val : SameObject(a[i], m.val[k])

\* what the multi-name DROP does: the tree is returned as it was
C28_MultiNameDropKeepsAll ==
    (pc = "applied" /\ Len(b) = 1 /\ b[1].kind = "Drop" /\ Len(b[1].names) >= 2) =>
        m = OkSome(a)

(***************************************************************************)
(* Properties of diff: an extension present on both sides.                 *)
(***************************************************************************)
\* the extensions created in both trees, as pairs of positions
ExtensionInBoth ==
    {p \in (DOMAIN a) \X (DOMAIN b) :
        /\ a[p[1]].kind = "CreateExtension"
        /\ b[p[2]].kind = "CreateExtension"
        /\ a[p[1]].name = b[p[2]].name}

\* st creates or drops the extension called n
AboutExtension(st, n) ==
    \/ st.kind = "CreateExtension" /\ st.name = n
    \/ st.kind = "DropExtension" /\ n \in Range(st.names)

\* C29: when an extension of one name is created in both a and b, diff(a, b)
\* succeeds and no statement of the result is about that extension.
C29_SharedExtensionIsSilent ==
    (pc = "diffed" /\ ExtensionInBoth # {}) =>
        /\ d.tag = "Ok"
        /\ \A p \in ExtensionInBoth :
               \A k \in DOMAIN d.val : ~AboutExtension(d.val[k], a[p[1]].name)

\* what the code does with a shared extension: the diff is an error
C29_SharedExtensionFails ==
    (pc = "diffed" /\ ExtensionInBoth # {}) => d.tag = "Err"

(***************************************************************************)
(* Properties of the naming convention: the name written for the next      *)
(* migration is parsed again when the migration after it is generated.     *)
(***************************************************************************)
\* the token kinds of a template, in order
TokenKinds(T) == [i \in DOMAIN TokensOf(T) |-> TokensOf(T)[i].t]

\* the template was parsed from a file name and resolved as parsed, with
\* data run_migration builds: a timestamp within the accepted years and a
\* name without a dot
ResolvedAsParsed ==
    /\ pc = "resolved"
    /\ parsed.tag = "Ok"
    /\ tmpl = parsed.val
    /\ data \in ChosenData
    /\ data.timestamp.days >= MIN_DATE
    /\ data.timestamp.days < MAX_DATE
    /\ "." \notin Range(data.name)

\* C30: the resolved name is accepted by PathTemplate::parse and parses to a
\* template with the same sequence of token kinds as the template it was
\* resolved from, whatever the hour and the subsecond of the timestamp.
C30_ConventionStable ==
    ResolvedAsParsed =>
        /\ parse(out).tag = "Ok"
        /\ TokenKinds(parse(out).val) = TokenKinds(tmpl)

\* a padded number that is one below the first accepted epoch second: its
\* successor is read as an epoch timestamp
BelowFirstEpoch(T) ==
    \E i \in DOMAIN TokensOf(T) :
        /\ TokensOf(T)[i].t = "PaddedNumber"
        /\ TokensOf(T)[i].number = <<"9", "4", "6", "6", "8", "4", "7", "9", "9">>

\* the same for timestamps of an hour from 1 to 12, data whose up_down is
\* set exactly when the template has an up/down token, and templates of one
\* segment that hold no random number
C30_StableInTheMorning ==
    (/\ ResolvedAsParsed
     /\ data.timestamp.secs \div 3600 \in 1..12
     /\ (data.up_down # <<>>) = includes_up_down(tmpl)
     /\ Len(tmpl.segments) = 1
     /\ ~HasToken(tmpl, "RandomNumber")
     /\ ~BelowFirstEpoch(tmpl))
        => C30_ConventionStable

=============================================================================
